---- MODULE Spec2Model ----
(***************************************************************************)
(* The session-scoped JSON-RPC dispatch layer of the WalletConnect dApp    *)
(* (src/src/contexts/JsonRpcContext.tsx): the dispatch wrapper             *)
(* _createJsonRpcRequestHandler, ping, and the per-chain method tables.    *)
(*                                                                         *)
(* JavaScript runs each handler to its next await without interruption,    *)
(* so one action of the model is one such run: Invoke runs the wrapper     *)
(* and the wrapped routine up to the routine's first await; FetchSettle,   *)
(* Respond and VerifySettle resume a suspended routine when the awaited    *)
(* promise settles and run it to its next await or, when the routine       *)
(* returns or throws, through the wrapper's then/catch/finally.            *)
(*                                                                         *)
(* Strings the code takes apart (chainId, account ids) are sequences of    *)
(* tokens in which ":" is a token of its own; other strings are TLA+       *)
(* strings.  Everything stored in the result field of a result record is   *)
(* a record, so that values of different shapes can be compared.           *)
(***************************************************************************)
EXTENDS Integers, Sequences, FiniteSets, TLC

(***************************************************************************)
(* Bounds of the model.                                                    *)
(***************************************************************************)
\* invocations of ping / wrapped operations in one behaviour
MaxInv == 2
\* gas prices the network may report are 1..MaxGasPrice
MaxGasPrice == 2
\* balances of the account are 0..MaxBalance
MaxBalance == 2
\* sessions established in one behaviour; the k-th has topic k
MaxSessions == 1
\* Keypair.generate() produces one of MaxGenerated keys
MaxGenerated == 2

(***************************************************************************)
(* Wire method names (src/src/constants/default.ts).                       *)
(***************************************************************************)
DEFAULT_EIP155_METHODS ==
  [ ETH_SEND_TRANSACTION |-> "eth_sendTransaction",
    ETH_SIGN_TRANSACTION |-> "eth_signTransaction",
    ETH_SIGN             |-> "eth_sign",
    PERSONAL_SIGN        |-> "personal_sign",
    ETH_SIGN_TYPED_DATA  |-> "eth_signTypedData" ]

DEFAULT_COSMOS_METHODS ==
  [ COSMOS_SIGN_DIRECT |-> "cosmos_signDirect",
    COSMOS_SIGN_AMINO  |-> "cosmos_signAmino" ]

DEFAULT_SOLANA_METHODS ==
  [ SOL_SIGN_TRANSACTION |-> "solana_signTransaction",
    SOL_SIGN_MESSAGE     |-> "solana_signMessage" ]

DEFAULT_CHIA_METHODS ==
  [ CHIA_GET_WALLETS             |-> "chia_getWallets",
    CHIA_GET_CAT_WALLET_INFO     |-> "chia_getCATWalletInfo",
    CHIA_SEND_TRANSACTION        |-> "chia_sendTransaction",
    CHIA_SPEND_CAT               |-> "chia_spendCAT",
    CHIA_NEW_ADDRESS             |-> "chia_getNextAddress",
    CHIA_LOG_IN                  |-> "chia_logIn",
    CHIA_SIGN_MESSAGE_BY_ADDRESS |-> "chia_signMessageByAddress",
    CHIA_SIGN_MESSAGE_BY_ID      |-> "chia_signMessageById",
    CHIA_GET_WALLET_SYNC_STATUS  |-> "chia_getSyncStatus",
    CHIA_GET_NFT_INFO            |-> "chia_getNFTInfo",
    CHIA_GET_NFTS                |-> "chia_getNFTs",
    CHIA_TAKE_OFFER              |-> "chia_takeOffer",
    CHIA_CREATE_OFFER_FOR_IDS    |-> "chia_createOfferForIds" ]

DEFAULT_POLKADOT_METHODS ==
  [ POLKADOT_SIGN_TRANSACTION |-> "polkadot_signTransaction",
    POLKADOT_SIGN_MESSAGE     |-> "polkadot_signMessage" ]

DEFAULT_NEAR_METHODS ==
  [ NEAR_SIGN_IN                    |-> "near_signIn",
    NEAR_SIGN_OUT                   |-> "near_signOut",
    NEAR_GET_ACCOUNTS               |-> "near_getAccounts",
    NEAR_SIGN_AND_SEND_TRANSACTION  |-> "near_signAndSendTransaction",
    NEAR_SIGN_AND_SEND_TRANSACTIONS |-> "near_signAndSendTransactions" ]

DEFAULT_ELROND_METHODS ==
  [ ELROND_SIGN_TRANSACTION  |-> "erd_signTransaction",
    ELROND_SIGN_TRANSACTIONS |-> "erd_signTransactions",
    ELROND_SIGN_MESSAGE      |-> "erd_signMessage",
    ELROND_SIGN_LOGIN_TOKEN  |-> "erd_signLoginToken" ]

\* the value of a member an enum does not declare (a property read that
\* yields undefined at run time)
UndefinedMethod == "undefined"

\* DEFAULT_X_METHODS.NAME as JavaScript evaluates it
EnumMember(enum, name) ==
  IF name \in DOMAIN enum THEN enum[name] ELSE UndefinedMethod

(***************************************************************************)
(* The method tables: the operations of the context, by table.             *)
(***************************************************************************)
EthereumOps ==
  { "ethereumRpc.testSendTransaction", "ethereumRpc.testSignTransaction",
    "ethereumRpc.testEthSign", "ethereumRpc.testSignPersonalMessage",
    "ethereumRpc.testSignTypedData" }

CosmosOps == { "cosmosRpc.testSignDirect", "cosmosRpc.testSignAmino" }

SolanaOps == { "solanaRpc.testSignMessage", "solanaRpc.testSignTransaction" }

PolkadotOps ==
  { "polkadotRpc.testSignMessage", "polkadotRpc.testSignTransaction" }

NearOps ==
  { "nearRpc.testSignAndSendTransaction",
    "nearRpc.testSignAndSendTransactions" }

ElrondOps ==
  { "elrondRpc.testSignMessage", "elrondRpc.testSignTransaction",
    "elrondRpc.testSignTransactions" }

\* the enum member each entry of chiaRpc reads for its method
ChiaMember ==
  [ testGetWallets            |-> "CHIA_GET_WALLETS",
    testGetCATWalletInfo      |-> "CHIA_GET_CAT_WALLET_INFO",
    testSendTransaction       |-> "CHIA_SEND_TRANSACTION",
    testSpendCAT              |-> "CHIA_SPEND_CAT",
    testNewAddress            |-> "CHIA_NEW_ADDRESS",
    testLogIn                 |-> "CHIA_LOG_IN",
    testSignMessageByAddress  |-> "CHIA_SIGN_MESSAGE_BY_ADDRESS",
    testSignMessageById       |-> "CHIA_SIGN_MESSAGE_BY_ID",
    testGetWalletSyncStatus   |-> "CHIA_GET_WALLET_SYNC_STATUS",
    testGetNFTInfo            |-> "CHIA_GET_NFT_INFO",
    testGetNFTs               |-> "CHIA_GET_NFTS",
    testTakeOffer             |-> "CHIA_TAKE_OFFER",
    testCreateOfferForIds     |-> "CHIA_CREATE_OFFER_FOR_IDS",
    testUnknownTestCommand    |-> "CHIA_UNKNOWN_TEST_COMMAND",
    testShowOfferDataNotification    |-> "CHIA_SHOW_NOTIFICATION",
    testShowAnnouncementNotification |-> "CHIA_SHOW_NOTIFICATION" ]

ChiaOps == { "chiaRpc." \o e : e \in DOMAIN ChiaMember }

\* the entry name of a chiaRpc operation
ChiaEntry(op) == CHOOSE e \in DOMAIN ChiaMember : op = "chiaRpc." \o e

Tables ==
  [ eip155   |-> EthereumOps,
    cosmos   |-> CosmosOps,
    solana   |-> SolanaOps,
    polkadot |-> PolkadotOps,
    near     |-> NearOps,
    elrond   |-> ElrondOps,
    chia     |-> ChiaOps ]

WrappedOps == UNION { Tables[t] : t \in DOMAIN Tables }

TableOf(op) == CHOOSE t \in DOMAIN Tables : op \in Tables[t]

(***************************************************************************)
(* Strings that the code takes apart.                                      *)
(***************************************************************************)
Colon == ":"

\* the value of a missing array element or property
UndefinedKey == << "undefined" >>

RECURSIVE SplitFrom(_, _)
\* the pieces of s after a piece that so far reads cur
SplitFrom(s, cur) ==
  IF s = << >> THEN << cur >>
  ELSE IF Head(s) = Colon THEN << cur >> \o SplitFrom(Tail(s), << >>)
  ELSE SplitFrom(Tail(s), Append(cur, Head(s)))

\* chainId.split(":")
Split(chainId) == SplitFrom(chainId, << >>)

\* parts[k - 1] of a JavaScript array (undefined past its end)
Element(parts, k) == IF k <= Len(parts) THEN parts[k] ELSE UndefinedKey

\* `${chainId}:${address}`
CaipAccountAddress(chainId, address) == chainId \o << Colon, address >>

\* a decimal string is the sequence of its digits; ParseDecimal is what
\* BigNumber.from does with it
RECURSIVE ParseDecimal(_)
ParseDecimal(digits) ==
  IF digits = << >> THEN 0
  ELSE 10 * ParseDecimal(SubSeq(digits, 1, Len(digits) - 1))
         + digits[Len(digits)]

\* address.toLowerCase() on the EVM addresses of the model
ToLowerCase(address) ==
  CASE address = "0xAb" -> "0xab"
    [] address = "0xCd" -> "0xcd"
    [] address = "0xEe" -> "0xee"
    [] OTHER -> address

(***************************************************************************)
(* Inputs: the chain ids and addresses the operations of a table are       *)
(* invoked with, and the session's data (ClientContext, ChainDataContext). *)
(***************************************************************************)
ChainIdsOf ==
  [ eip155   |-> { << "eip155", Colon, "1" >>, << "eip155", Colon, "5" >> },
    cosmos   |-> { << "cosmos", Colon, "cosmoshub-4" >>,
                   << "cosmos", Colon, "foochain" >>,
                   << "juno", Colon, "juno-1" >> },
    solana   |-> { << "solana", Colon, "4sGjMW1sUnHzSxGspuhpqLDx6wiyjNtZ" >> },
    polkadot |-> { << "polkadot", Colon, "91b171bb158e2d3848fa23a9f1c25182" >> },
    near     |-> { << "near", Colon, "testnet" >> },
    elrond   |-> { << "elrond", Colon, "1" >>, << "elrond", Colon, "1", Colon, "devnet" >> },
    chia     |-> { << "chia", Colon, "mainnet" >> } ]

AddressesOf ==
  [ eip155   |-> { "0xAb", "0xcd" },
    cosmos   |-> { "cosmos1a", "cosmos1b" },
    solana   |-> { "solA", "solB" },
    polkadot |-> { "dotA", "dotB" },
    near     |-> { "alice.testnet" },
    elrond   |-> { "erd1a", "not-bech32" },
    chia     |-> { "fingerprint1" } ]

\* the accounts the wallet approved for the session
SessionAccounts ==
  { CaipAccountAddress(<< "eip155", Colon, "1" >>, "0xAb"),
    CaipAccountAddress(<< "eip155", Colon, "1" >>, "0xcd"),
    CaipAccountAddress(<< "cosmos", Colon, "cosmoshub-4" >>, "cosmos1a"),
    CaipAccountAddress(<< "solana", Colon, "4sGjMW1sUnHzSxGspuhpqLDx6wiyjNtZ" >>, "solA"),
    CaipAccountAddress(<< "polkadot", Colon, "91b171bb158e2d3848fa23a9f1c25182" >>, "dotA"),
    CaipAccountAddress(<< "near", Colon, "testnet" >>, "alice.testnet"),
    CaipAccountAddress(<< "elrond", Colon, "1" >>, "erd1a"),
    CaipAccountAddress(<< "chia", Colon, "mainnet" >>, "fingerprint1") }

\* chainData[namespace][reference]: the references with an entry, by namespace
ChainDataTable ==
  [ ns \in { << "eip155" >>, << "cosmos" >> } |->
      IF ns = << "eip155" >> THEN { << "1" >> } ELSE { << "cosmoshub-4" >> } ]

\* the values balances may have for the session's EVM account: no entry for
\* the account, an empty list, a first entry without balance, with the empty
\* string, or with a decimal string
BalanceLists ==
  { << >>, << [symbol |-> "ETH"] >>, << [symbol |-> "ETH", balance |-> << >>] >> }
    \cup { << [symbol |-> "ETH", balance |-> << d >>] >> : d \in 0..MaxBalance }

BalanceMaps ==
  { [ a \in { } |-> << >> ] }
    \cup { [ a \in { CaipAccountAddress(<< "eip155", Colon, "1" >>, "0xAb") }
               |-> l ] : l \in BalanceLists }

\* solanaPublicKeys: undefined, or a map from address to public key
SolanaKeyMaps ==
  { [defined |-> FALSE],
    [defined |-> TRUE, keys |-> [ a \in { "solA" } |-> "solA" ]] }

(***************************************************************************)
(* Values: texts, errors, signatures, requests, result records.            *)
(***************************************************************************)
None == [none |-> TRUE]

Text(t) == [text |-> t]

TextAbout(t, x) == [text |-> t, about |-> x]

\* new Error(message)
Error(message) == [name |-> "Error", message |-> message]

\* the TypeError of reading a property of undefined or null, or of calling
\* what is no function
TypeError == [name |-> "TypeError", message |-> Text("Cannot read properties of undefined")]

\* String(error): the name, a colon, the message
StringOf(error) == [text |-> error.name \o ": ", of |-> error.message]

\* catch (error) { throw new Error(error); }
Rethrown(error) == Error(StringOf(error))

NotInitialized == Error(Text("WalletConnect is not initialized"))

NotConnected == Error(Text("Session is not connected"))

\* what the session transport and the network may reject with
TransportError == Error(Text("Request rejected"))

NetworkError == Error(Text("Network request failed"))

\* a signature: who signed and what was signed; a value that parses as a
\* signature but verifies for nobody; a value that does not parse
Signature(signer, over) == [signer |-> signer, over |-> over]

BrokenSignature == [broken |-> TRUE]

Malformed == [malformed |-> TRUE]

IsSignature(s) == "signer" \in DOMAIN s

\* the argument of client.request
Request(topic, chainId, method, params) ==
  [topic |-> topic, chainId |-> chainId, method |-> method, params |-> params]

\* how a run of a routine ends: suspended at an await (with the requests it
\* sent on the way and the locals it keeps), returned, or thrown
Await(pc, sent, keep) == [k |-> "await", pc |-> pc, sent |-> sent, keep |-> keep]

Return(value, verdict) ==
  [k |-> "return", value |-> value, verdict |-> verdict, sent |-> << >>]

Throw(error) == [k |-> "throw", error |-> error, sent |-> << >>]

\* a settled promise handed to a resumed routine
Resolved(value) == [ok |-> TRUE, value |-> value]

Rejected(error) == [ok |-> FALSE, error |-> error]

\* the verdict a verifier gave, on which payload and signature
NoVerdict == [by |-> "none"]

Verdict(by, payload, signature, value) ==
  [by |-> by, payload |-> payload, signature |-> signature, value |-> value]

(***************************************************************************)
(* Chain verifiers (external libraries, by what they decide).              *)
(***************************************************************************)
\* utils.verifyMessage / utils.verifyTypedData: the address whose key made
\* the signature if it is over this message, some unrelated address if not
RecoverAddress(message, signature) ==
  IF IsSignature(signature) /\ signature.over = message
  THEN signature.signer ELSE "0xEe"

\* _verifyEip155MessageSignature comparing the addresses as they are
_verifyEip155MessageSignature_CaseSensitive(message, signature, address) ==
  RecoverAddress(message, signature) = address

_verifyEip155MessageSignature(message, signature, address) ==
  ToLowerCase(RecoverAddress(message, signature)) = ToLowerCase(address)

\* EthTransaction.fromSerializedTx(signedTx).verifySignature(): whether the
\* signed transaction carries a signature that is valid for its own content
VerifySignature(signedTx) == IsSignature(signedTx)

\* verifyDirectSignature / verifyAminoSignature / verifyMessageSignature /
\* signatureVerify / UserVerifier.verify: whether signature is the signer's
\* over payload
VerifyAgainst(signer, signature, payload) ==
  /\ IsSignature(signature)
  /\ signature.signer = signer
  /\ signature.over = payload

\* Address validity for new Address(address) / Address.fromBech32(address)
IsBech32(address) == address /= "not-bech32"

(***************************************************************************)
(* State.                                                                  *)
(***************************************************************************)
VARIABLES
  client,            \* the WalletConnect client is defined
  session,           \* None (undefined) or [topic |-> t]
  accounts,          \* the session's account list
  balances,          \* account -> list of token balances
  chainData,         \* the chain metadata table
  solanaPublicKeys,  \* undefined, or address -> public key
  pending,           \* useState(false)
  result,            \* useState(): undefined, later a result record
  table,             \* the method table whose operations the UI offers
  sessions,          \* the number of sessions established so far
  inv,               \* the invocations, by number
  last               \* history: the invocation that wrote result last

vars ==
  << client, session, accounts, balances, chainData, solanaPublicKeys,
     pending, result, table, sessions, inv, last >>

Undefined == [undefined |-> TRUE]

Idle == [pc |-> "idle"]

Invocations == 1..MaxInv

(***************************************************************************)
(* helpers (not among the source files): formatTestTransaction.            *)
(***************************************************************************)
\* the transactions formatTestTransaction may resolve with: a transfer of
\* the account to itself with the gas price and gas limit fetched
FormattedTransactions(address) ==
  { [from |-> address, to |-> address, gasPrice |-> p, gasLimit |-> 1]
      : p \in 1..MaxGasPrice }

(***************************************************************************)
(* ethereumRpc.                                                            *)
(***************************************************************************)
\* `My email is john@doe.com - ${Date.now()}`
EmailMessage == Text("My email is john@doe.com - ${Date.now()}")

\* encoding.utf8ToHex(message, true)
Utf8ToHex(message) == [hex |-> message]

\* JSON.stringify(value)
JsonStringify(value) == IF value = Undefined THEN Undefined ELSE [json |-> value]

\* eip712.example
Eip712Example == [domain |-> Text("Ether Mail"), message |-> Text("Mail")]

EthereumMethod(op) ==
  CASE op = "ethereumRpc.testSendTransaction" -> DEFAULT_EIP155_METHODS.ETH_SEND_TRANSACTION
    [] op = "ethereumRpc.testSignTransaction" -> DEFAULT_EIP155_METHODS.ETH_SIGN_TRANSACTION
    [] op = "ethereumRpc.testSignPersonalMessage" -> DEFAULT_EIP155_METHODS.PERSONAL_SIGN
    [] op = "ethereumRpc.testEthSign" -> DEFAULT_EIP155_METHODS.ETH_SIGN
    [] op = "ethereumRpc.testSignTypedData" -> DEFAULT_EIP155_METHODS.ETH_SIGN_TYPED_DATA

\* AccountNotFound looking for an account that ends with the address
AccountNotFound_EndsWith(chainId, address) ==
  \A account \in accounts : account[Len(account)] /= address

\* accounts.find((account) => account === caipAccountAddress) === undefined
AccountNotFound(chainId, address) ==
  CaipAccountAddress(chainId, address) \notin accounts

AccountNotFoundError(chainId, address) ==
  Error(TextAbout("Account for ${caipAccountAddress} not found",
                  CaipAccountAddress(chainId, address)))

\* the error, if any, of
\*   const [namespace, reference] = chainId.split(":");
\*   const targetChainData = chainData[namespace][reference];
\*   if (typeof targetChainData === "undefined") throw ...
ChainDataError(chainId) ==
  LET parts == Split(chainId)
      namespace == Element(parts, 1)
      reference == Element(parts, 2)
  IN  IF namespace \notin DOMAIN chainData THEN TypeError
      ELSE IF reference \notin chainData[namespace]
           THEN Error(TextAbout("Missing chain data for chainId: ${chainId}", chainId))
           ELSE None

\* BigNumber.from(balances[account][0].balance || "0"): the balance, or None
\* where the expression throws
AccountBalance(account) ==
  IF account \notin DOMAIN balances THEN None
  ELSE IF balances[account] = << >> THEN None
  ELSE LET first == balances[account][1]
       IN  IF "balance" \in DOMAIN first /\ first.balance /= << >>
           THEN [value |-> ParseDecimal(first.balance)]
           ELSE [value |-> ParseDecimal(<< 0 >>)]

\* InsufficientFunds with the operands of lt exchanged
\* InsufficientFunds turning away a balance equal to the cost as well
InsufficientFunds_OrEqual(balance, tx) == balance <= tx.gasPrice * tx.gasLimit

InsufficientFunds_Exchanged(balance, tx) == tx.gasPrice * tx.gasLimit < balance

\* balance.lt(BigNumber.from(tx.gasPrice).mul(tx.gasLimit))
InsufficientFunds(balance, tx) == balance < tx.gasPrice * tx.gasLimit

\* an entry of ethereumRpc from its start to its first await
EthereumBegin(op, chainId, address, topic) ==
  CASE op \in { "ethereumRpc.testSendTransaction", "ethereumRpc.testSignTransaction" } ->
         IF AccountNotFound(chainId, address)
         THEN Throw(AccountNotFoundError(chainId, address))
         ELSE Await("fetch", << >>, None)
    [] op = "ethereumRpc.testSignPersonalMessage" ->
         Await("request",
               << Request(topic, chainId, DEFAULT_EIP155_METHODS.PERSONAL_SIGN,
                          << Utf8ToHex(EmailMessage), [address |-> address] >>) >>,
               EmailMessage)
    [] op = "ethereumRpc.testEthSign" ->
         Await("request",
               << Request(topic, chainId, DEFAULT_EIP155_METHODS.ETH_SIGN,
                          << [address |-> address], Utf8ToHex(EmailMessage) >>) >>,
               EmailMessage)
    [] op = "ethereumRpc.testSignTypedData" ->
         Await("request",
               << Request(topic, chainId, DEFAULT_EIP155_METHODS.ETH_SIGN_TYPED_DATA,
                          << [address |-> address], JsonStringify(Eip712Example) >>) >>,
               Eip712Example.message)

\* testSendTransaction / testSignTransaction from the settling of
\* formatTestTransaction to the next await
EthereumAfterFormat(s, fetched) ==
  IF ~fetched.ok THEN Throw(fetched.error)
  ELSE IF s.op = "ethereumRpc.testSignTransaction"
  THEN Await("request",
             << Request(s.topic, s.chainId, DEFAULT_EIP155_METHODS.ETH_SIGN_TRANSACTION,
                        << fetched.value >>) >>,
             None)
  ELSE LET balance == AccountBalance(CaipAccountAddress(s.chainId, s.address))
       IN  IF balance = None THEN Throw(TypeError)
           ELSE IF InsufficientFunds(balance.value, fetched.value)
           THEN Return([method |-> DEFAULT_EIP155_METHODS.ETH_SEND_TRANSACTION,
                        address |-> s.address,
                        valid |-> FALSE,
                        result |-> Text("Insufficient funds for intrinsic transaction cost")],
                       NoVerdict)
           ELSE Await("request",
                      << Request(s.topic, s.chainId,
                                 DEFAULT_EIP155_METHODS.ETH_SEND_TRANSACTION,
                                 << fetched.value >>) >>,
                      None)

\* EthereumVerifyMessage showing the signature only when it verifies
EthereumVerifyMessage_HidesSignature(s, signature, method) ==
  LET error == ChainDataError(s.chainId)
  IN  IF error /= None THEN Throw(error)
      ELSE IF signature = Malformed THEN Throw(Error(Text("invalid signature string")))
      ELSE LET valid == _verifyEip155MessageSignature(s.keep, signature, s.address)
           IN  Return([method |-> method, address |-> s.address, valid |-> valid,
                       result |-> IF valid THEN signature ELSE Text("invalid signature")],
                      Verdict("_verifyEip155MessageSignature", s.keep, signature, valid))

\* testSignPersonalMessage / testEthSign after the request resolved
EthereumVerifyMessage(s, signature, method) ==
  LET error == ChainDataError(s.chainId)
  IN  IF error /= None THEN Throw(error)
      ELSE IF signature = Malformed THEN Throw(Error(Text("invalid signature string")))
      ELSE LET valid == _verifyEip155MessageSignature(s.keep, signature, s.address)
           IN  Return([method |-> method, address |-> s.address,
                       valid |-> valid, result |-> signature],
                      Verdict("_verifyEip155MessageSignature", s.keep, signature, valid))

\* an entry of ethereumRpc from the settling of client.request to its end
\* EthereumOnReply holding the signer of the signed transaction against the
\* address of the invocation
EthereumOnReply_ChecksSigner(s, reply) ==
  IF ~reply.ok THEN Throw(reply.error)
  ELSE CASE s.op = "ethereumRpc.testSendTransaction" ->
              Return([method |-> DEFAULT_EIP155_METHODS.ETH_SEND_TRANSACTION,
                      address |-> s.address, valid |-> TRUE, result |-> reply.value],
                     NoVerdict)
         [] s.op = "ethereumRpc.testSignTransaction" ->
              IF reply.value = Malformed
              THEN Throw(Error(Text("invalid serialized tx input")))
              ELSE LET valid == /\ VerifySignature(reply.value)
                                /\ ToLowerCase(reply.value.signer) = ToLowerCase(s.address)
                   IN  Return([method |-> DEFAULT_EIP155_METHODS.ETH_SIGN_TRANSACTION,
                               address |-> s.address, valid |-> valid,
                               result |-> reply.value],
                              Verdict("verifySignature", reply.value, reply.value, valid))
         [] s.op = "ethereumRpc.testSignPersonalMessage" ->
              EthereumVerifyMessage(s, reply.value, DEFAULT_EIP155_METHODS.PERSONAL_SIGN)
         [] s.op = "ethereumRpc.testEthSign" ->
              EthereumVerifyMessage(s, reply.value,
                                    DEFAULT_EIP155_METHODS.ETH_SIGN \o " (standard)")
         [] s.op = "ethereumRpc.testSignTypedData" ->
              IF reply.value = Malformed
              THEN Throw(Error(Text("invalid signature string")))
              ELSE LET valid == ToLowerCase(RecoverAddress(s.keep, reply.value))
                                  = ToLowerCase(s.address)
                   IN  Return([method |-> DEFAULT_EIP155_METHODS.ETH_SIGN_TYPED_DATA,
                               address |-> s.address, valid |-> valid,
                               result |-> reply.value],
                              Verdict("verifyTypedData", s.keep, reply.value, valid))

EthereumOnReply(s, reply) ==
  IF ~reply.ok THEN Throw(reply.error)
  ELSE CASE s.op = "ethereumRpc.testSendTransaction" ->
              Return([method |-> DEFAULT_EIP155_METHODS.ETH_SEND_TRANSACTION,
                      address |-> s.address, valid |-> TRUE, result |-> reply.value],
                     NoVerdict)
         [] s.op = "ethereumRpc.testSignTransaction" ->
              IF reply.value = Malformed
              THEN Throw(Error(Text("invalid serialized tx input")))
              ELSE LET valid == VerifySignature(reply.value)
                   IN  Return([method |-> DEFAULT_EIP155_METHODS.ETH_SIGN_TRANSACTION,
                               address |-> s.address, valid |-> valid,
                               result |-> reply.value],
                              Verdict("verifySignature", reply.value, reply.value, valid))
         [] s.op = "ethereumRpc.testSignPersonalMessage" ->
              EthereumVerifyMessage(s, reply.value, DEFAULT_EIP155_METHODS.PERSONAL_SIGN)
         [] s.op = "ethereumRpc.testEthSign" ->
              EthereumVerifyMessage(s, reply.value,
                                    DEFAULT_EIP155_METHODS.ETH_SIGN \o " (standard)")
         [] s.op = "ethereumRpc.testSignTypedData" ->
              IF reply.value = Malformed
              THEN Throw(Error(Text("invalid signature string")))
              ELSE LET valid == ToLowerCase(RecoverAddress(s.keep, reply.value))
                                  = ToLowerCase(s.address)
                   IN  Return([method |-> DEFAULT_EIP155_METHODS.ETH_SIGN_TYPED_DATA,
                               address |-> s.address, valid |-> valid,
                               result |-> reply.value],
                              Verdict("verifyTypedData", s.keep, reply.value, valid))

(***************************************************************************)
(* cosmosRpc.                                                              *)
(***************************************************************************)
\* formatDirectSignDoc(fee, pubkey, gasLimit, accountNumber, sequence,
\* bodyBytes, reference)
DirectSignDoc(reference) ==
  [kind |-> "direct", accountNumber |-> 1, chainId |-> reference]

\* the amino sign doc of testSignAmino
AminoSignDoc ==
  [kind |-> "amino", chain_id |-> "foochain", memo |-> "hello, world",
   account_number |-> "7", sequence |-> "54"]

\* stringifySignDocValues(signDoc)
StringifySignDocValues(signDoc) == [stringified |-> signDoc]

CosmosMethod(op) ==
  CASE op = "cosmosRpc.testSignDirect" -> DEFAULT_COSMOS_METHODS.COSMOS_SIGN_DIRECT
    [] op = "cosmosRpc.testSignAmino" -> DEFAULT_COSMOS_METHODS.COSMOS_SIGN_AMINO

\* CosmosBegin sending a direct sign doc other than the one it keeps for
\* the verifier
CosmosBegin_SendsRestamped(op, chainId, address, topic) ==
  CASE op = "cosmosRpc.testSignDirect" ->
         LET reference == Element(Split(chainId), 2)
             signDoc == DirectSignDoc(reference)
         IN  Await("request",
                   << Request(topic, chainId, DEFAULT_COSMOS_METHODS.COSMOS_SIGN_DIRECT,
                              [signerAddress |-> address,
                               signDoc |-> StringifySignDocValues(
                                             DirectSignDoc(chainId))]) >>,
                   signDoc)
    [] op = "cosmosRpc.testSignAmino" ->
         Await("request",
               << Request(topic, chainId, DEFAULT_COSMOS_METHODS.COSMOS_SIGN_AMINO,
                          [signerAddress |-> address, signDoc |-> AminoSignDoc]) >>,
               AminoSignDoc)

CosmosBegin(op, chainId, address, topic) ==
  CASE op = "cosmosRpc.testSignDirect" ->
         LET reference == Element(Split(chainId), 2)
             signDoc == DirectSignDoc(reference)
         IN  Await("request",
                   << Request(topic, chainId, DEFAULT_COSMOS_METHODS.COSMOS_SIGN_DIRECT,
                              [signerAddress |-> address,
                               signDoc |-> StringifySignDocValues(signDoc)]) >>,
                   signDoc)
    [] op = "cosmosRpc.testSignAmino" ->
         Await("request",
               << Request(topic, chainId, DEFAULT_COSMOS_METHODS.COSMOS_SIGN_AMINO,
                          [signerAddress |-> address, signDoc |-> AminoSignDoc]) >>,
               AminoSignDoc)

\* from the settling of client.request to the await of the verifier
CosmosOnReply(s, reply) ==
  IF ~reply.ok THEN Throw(reply.error)
  ELSE LET error == ChainDataError(s.chainId)
       IN  IF error /= None THEN Throw(error)
           ELSE IF "signature" \notin DOMAIN reply.value THEN Throw(TypeError)
           ELSE Await("verify", << >>,
                      [signDoc |-> s.keep, signature |-> reply.value.signature])

\* CosmosOnVerified taking the signature on trust
CosmosOnVerified_Trusting(s) ==
  Return([method |-> CosmosMethod(s.op), address |-> s.address,
          valid |-> TRUE, result |-> s.keep.signature],
         NoVerdict)

\* from the settling of verifyDirectSignature / verifyAminoSignature on
CosmosOnVerified(s) ==
  IF s.keep.signature = Malformed
  THEN Throw(Error(Text("invalid signature")))
  ELSE LET valid == VerifyAgainst(s.address, s.keep.signature, s.keep.signDoc)
       IN  Return([method |-> CosmosMethod(s.op), address |-> s.address,
                   valid |-> valid, result |-> s.keep.signature],
                  Verdict(IF s.op = "cosmosRpc.testSignDirect"
                          THEN "verifyDirectSignature" ELSE "verifyAminoSignature",
                          s.keep.signDoc, s.keep.signature, valid))

(***************************************************************************)
(* solanaRpc.                                                              *)
(***************************************************************************)
\* solanaPublicKeys[address], None when the map has no such entry
SenderPublicKey(address) ==
  IF address \in DOMAIN solanaPublicKeys.keys
  THEN [base58 |-> solanaPublicKeys.keys[address]] ELSE None

\* the public keys Keypair.generate() may produce
GeneratedKeys == { [generated |-> k] : k \in 1..MaxGenerated }

\* what testSignTransaction draws by itself when it builds its transaction
KeyDraws(op) ==
  IF op = "solanaRpc.testSignTransaction" THEN GeneratedKeys ELSE { None }

\* the transaction testSignTransaction builds: one transfer of one lamport
\* from the sender to a freshly generated key
SolanaTransaction(senderPublicKey, blockhash, generated) ==
  [feePayer |-> senderPublicKey, recentBlockhash |-> blockhash,
   instructions |-> << [programId |-> "SystemProgram", lamports |-> 1,
                        fromPubkey |-> senderPublicKey,
                        toPubkey |-> generated] >>]

\* bs58.encode(new TextEncoder().encode(text))
Bs58Encode(text) == [bs58 |-> text]

SolanaMessage ==
  Bs58Encode(Text("This is an example message to be signed - ${Date.now()}"))

SolanaMethod(op) ==
  CASE op = "solanaRpc.testSignTransaction" -> DEFAULT_SOLANA_METHODS.SOL_SIGN_TRANSACTION
    [] op = "solanaRpc.testSignMessage" -> DEFAULT_SOLANA_METHODS.SOL_SIGN_MESSAGE

SolanaBegin(op, chainId, address, topic) ==
  IF ~solanaPublicKeys.defined
  THEN Throw(Error(Text("Could not find Solana PublicKeys.")))
  ELSE CASE op = "solanaRpc.testSignTransaction" -> Await("fetch", << >>, None)
         [] op = "solanaRpc.testSignMessage" ->
              IF SenderPublicKey(address) = None THEN Throw(Rethrown(TypeError))
              ELSE Await("request",
                         << Request(topic, chainId, DEFAULT_SOLANA_METHODS.SOL_SIGN_MESSAGE,
                                    [pubkey |-> SenderPublicKey(address).base58,
                                     message |-> SolanaMessage]) >>,
                         SolanaMessage)

\* testSignTransaction from the settling of getRecentBlockhash to the
\* await of client.request
SolanaAfterBlockhash(s, fetched, generated) ==
  IF ~fetched.ok THEN Throw(fetched.error)
  ELSE LET senderPublicKey == SenderPublicKey(s.address)
           transaction == SolanaTransaction(senderPublicKey, fetched.value, generated)
       IN  IF senderPublicKey = None THEN Throw(Rethrown(TypeError))
           ELSE Await("request",
                      << Request(s.topic, s.chainId,
                                 DEFAULT_SOLANA_METHODS.SOL_SIGN_TRANSACTION,
                                 [feePayer |-> senderPublicKey.base58,
                                  recentBlockhash |-> transaction.recentBlockhash,
                                  instructions |-> transaction.instructions]) >>,
                      transaction)

SolanaOnReply(s, reply) ==
  IF ~reply.ok THEN Throw(Rethrown(reply.error))
  ELSE IF "signature" \notin DOMAIN reply.value THEN Throw(Rethrown(TypeError))
  ELSE IF reply.value.signature = Malformed
  THEN Throw(Rethrown(Error(Text("Non-base58 character"))))
  ELSE LET signature == reply.value.signature
           valid == VerifyAgainst(SenderPublicKey(s.address).base58, signature, s.keep)
       IN  Return([method |-> SolanaMethod(s.op), address |-> s.address,
                   valid |-> valid, result |-> signature],
                  Verdict(IF s.op = "solanaRpc.testSignTransaction"
                          THEN "verifySignatures" ELSE "verifyMessageSignature",
                          s.keep, signature, valid))

(***************************************************************************)
(* polkadotRpc.                                                            *)
(***************************************************************************)
\* the SCALE encoded system.remark payload of testSignTransaction
PolkadotTransactionPayload == Text("0x00019074686973...")

PolkadotMessage == Text("This is an example message to be signed - ${Date.now()}")

PolkadotMethod(op) ==
  CASE op = "polkadotRpc.testSignTransaction" -> DEFAULT_POLKADOT_METHODS.POLKADOT_SIGN_TRANSACTION
    [] op = "polkadotRpc.testSignMessage" -> DEFAULT_POLKADOT_METHODS.POLKADOT_SIGN_MESSAGE

PolkadotBegin(op, chainId, address, topic) ==
  CASE op = "polkadotRpc.testSignTransaction" ->
         Await("request",
               << Request(topic, chainId, DEFAULT_POLKADOT_METHODS.POLKADOT_SIGN_TRANSACTION,
                          [address |-> address,
                           transactionPayload |-> PolkadotTransactionPayload]) >>,
               PolkadotTransactionPayload)
    [] op = "polkadotRpc.testSignMessage" ->
         Await("request",
               << Request(topic, chainId, DEFAULT_POLKADOT_METHODS.POLKADOT_SIGN_MESSAGE,
                          [address |-> address, message |-> PolkadotMessage]) >>,
               PolkadotMessage)

\* from the settling of client.request to await cryptoWaitReady()
\* PolkadotOnReply verifying at once, without the readiness wait
PolkadotOnReply_VerifiesAtOnce(s, reply) ==
  IF ~reply.ok THEN Throw(Rethrown(reply.error))
  ELSE IF "signature" \notin DOMAIN reply.value THEN Throw(Rethrown(TypeError))
  ELSE IF reply.value.signature = Malformed
  THEN Throw(Rethrown(Error(Text("Invalid signature length"))))
  ELSE LET signature == reply.value.signature
           valid == VerifyAgainst(s.address, signature, s.keep)
       IN  Return([method |-> PolkadotMethod(s.op), address |-> s.address,
                   valid |-> valid, result |-> signature],
                  Verdict("signatureVerify", s.keep, signature, valid))

PolkadotOnReply(s, reply) ==
  IF ~reply.ok THEN Throw(Rethrown(reply.error))
  ELSE Await("cryptoWaitReady", << >>, [payload |-> s.keep, reply |-> reply.value])

\* from the settling of cryptoWaitReady() on
PolkadotOnReady(s, ready) ==
  IF ~ready.ok THEN Throw(Rethrown(ready.error))
  ELSE IF "signature" \notin DOMAIN s.keep.reply THEN Throw(Rethrown(TypeError))
  ELSE IF s.keep.reply.signature = Malformed
  THEN Throw(Rethrown(Error(Text("Invalid signature length"))))
  ELSE LET signature == s.keep.reply.signature
           valid == VerifyAgainst(s.address, signature, s.keep.payload)
       IN  Return([method |-> PolkadotMethod(s.op), address |-> s.address,
                   valid |-> valid, result |-> signature],
                  Verdict("signatureVerify", s.keep.payload, signature, valid))

(***************************************************************************)
(* chiaRpc.                                                                *)
(***************************************************************************)
ChiaMethod(op) == EnumMember(DEFAULT_CHIA_METHODS, ChiaMember[ChiaEntry(op)])

\* the offers list of testShowOfferDataNotification
Offers == << "offer1qqr83wcuu2rykcmqvpsxzgqq", "offer1qqr83wcuu2rykcmqvpsxygqq..npc0",
             "offer1qqr83wcuu2rykcmqvpsxygqq..lzsh" >>

\* offers[Math.floor(Math.random() * offers.length)]: any item of the list
OfferDraws(op) ==
  IF op = "chiaRpc.testShowOfferDataNotification" THEN DOMAIN Offers ELSE { 1 }

ChiaParams(op, address, random) ==
  IF op = "chiaRpc.testShowOfferDataNotification"
  THEN [fingerprint |-> address, entry |-> ChiaEntry(op), offerData |-> Offers[random]]
  ELSE [fingerprint |-> address, entry |-> ChiaEntry(op)]

ChiaBegin(op, chainId, address, topic, random) ==
  Await("request",
        << Request(topic, chainId, ChiaMethod(op), ChiaParams(op, address, random)) >>,
        None)

\* ChiaOnReply taking valid from the success flag of the response
ChiaOnReply_ChecksSuccess(s, reply) ==
  IF ~reply.ok THEN Throw(reply.error)
  ELSE Return([method |-> ChiaMethod(s.op), address |-> s.address,
               valid |-> reply.value.success, result |-> JsonStringify(reply.value)],
              NoVerdict)

ChiaOnReply(s, reply) ==
  IF ~reply.ok THEN Throw(reply.error)
  ELSE Return([method |-> ChiaMethod(s.op), address |-> s.address,
               valid |-> TRUE, result |-> JsonStringify(reply.value)],
              NoVerdict)

(***************************************************************************)
(* nearRpc.                                                                *)
(***************************************************************************)
\* a FunctionCall action of the guest book contract
NearAction(text) ==
  [type |-> "FunctionCall", methodName |-> "addMessage", text |-> text,
   gas |-> "30000000000000", deposit |-> "0"]

NearTransaction(address, text) ==
  [signerId |-> address, receiverId |-> "guest-book.testnet",
   actions |-> << NearAction(text) >>]

NearMethod(op) ==
  CASE op = "nearRpc.testSignAndSendTransaction" ->
         DEFAULT_NEAR_METHODS.NEAR_SIGN_AND_SEND_TRANSACTION
    [] op = "nearRpc.testSignAndSendTransactions" ->
         DEFAULT_NEAR_METHODS.NEAR_SIGN_AND_SEND_TRANSACTIONS

NearBegin(op, chainId, address, topic) ==
  CASE op = "nearRpc.testSignAndSendTransaction" ->
         Await("request",
               << Request(topic, chainId, NearMethod(op),
                          [transaction |->
                             NearTransaction(address, "Hello from Wallet Connect!")]) >>,
               None)
    [] op = "nearRpc.testSignAndSendTransactions" ->
         Await("request",
               << Request(topic, chainId, NearMethod(op),
                          [transactions |->
                             << NearTransaction(address, "Hello from Wallet Connect! (1/2)"),
                                NearTransaction(address, "Hello from Wallet Connect! (2/2)") >>]) >>,
               None)

\* r.transaction (undefined when r has no such property)
TransactionOf(r) == IF "transaction" \in DOMAIN r THEN r.transaction ELSE Undefined

\* a reply of the wallet is null, an object, or a list of objects
Null == [null |-> TRUE]

ListReply(items) == [list |-> items]

IsList(value) == "list" \in DOMAIN value

\* NearOnReply reporting valid only when a transaction came back
NearOnReply_RequiresTransaction(s, reply) ==
  IF ~reply.ok THEN Throw(reply.error)
  ELSE CASE s.op = "nearRpc.testSignAndSendTransaction" ->
              IF reply.value = Null THEN Throw(TypeError)
              ELSE Return([method |-> NearMethod(s.op), address |-> s.address,
                           valid |-> TransactionOf(reply.value) /= Undefined,
                           result |-> JsonStringify(TransactionOf(reply.value))],
                          NoVerdict)
         [] s.op = "nearRpc.testSignAndSendTransactions" ->
              IF ~IsList(reply.value) THEN Throw(TypeError)
              ELSE Return([method |-> NearMethod(s.op), address |-> s.address,
                           valid |-> \A k \in DOMAIN reply.value.list :
                                       TransactionOf(reply.value.list[k]) /= Undefined,
                           result |-> JsonStringify(
                             [list |-> [k \in DOMAIN reply.value.list |->
                                          TransactionOf(reply.value.list[k])]])],
                          NoVerdict)

NearOnReply(s, reply) ==
  IF ~reply.ok THEN Throw(reply.error)
  ELSE CASE s.op = "nearRpc.testSignAndSendTransaction" ->
              IF reply.value = Null THEN Throw(TypeError)
              ELSE Return([method |-> NearMethod(s.op), address |-> s.address,
                           valid |-> TRUE,
                           result |-> JsonStringify(TransactionOf(reply.value))],
                          NoVerdict)
         [] s.op = "nearRpc.testSignAndSendTransactions" ->
              IF ~IsList(reply.value) THEN Throw(TypeError)
              ELSE Return([method |-> NearMethod(s.op), address |-> s.address,
                           valid |-> TRUE,
                           result |-> JsonStringify(
                             [list |-> [k \in DOMAIN reply.value.list |->
                                          TransactionOf(reply.value.list[k])]])],
                          NoVerdict)

(***************************************************************************)
(* elrondRpc.                                                              *)
(***************************************************************************)
\* new ElrondTransaction({nonce, value, ..., chainID: reference, data})
ElrondTransaction(nonce, value, address, reference, data) ==
  [nonce |-> nonce, value |-> value, receiver |-> address, sender |-> address,
   gasPrice |-> 1000000000, gasLimit |-> 50000, chainID |-> reference,
   data |-> data]

\* the three transactions of testSignTransactions
ElrondBatch(address, reference) ==
  << ElrondTransaction(1, "10000000000000000000", address, reference, "testdata"),
     ElrondTransaction(2, "20000000000000000000", address, reference, ""),
     ElrondTransaction(3, "300000000000000000", address, reference, "third") >>

ElrondMessage == Text("Sign this message - ${Date.now()}")

ElrondMethod(op) ==
  CASE op = "elrondRpc.testSignTransaction" -> DEFAULT_ELROND_METHODS.ELROND_SIGN_TRANSACTION
    [] op = "elrondRpc.testSignTransactions" -> DEFAULT_ELROND_METHODS.ELROND_SIGN_TRANSACTIONS
    [] op = "elrondRpc.testSignMessage" -> DEFAULT_ELROND_METHODS.ELROND_SIGN_MESSAGE

ElrondBegin(op, chainId, address, topic) ==
  LET reference == Element(Split(chainId), 2)
  IN  IF ~IsBech32(address) THEN Throw(Error(Text("Cannot create address from")))
      ELSE CASE op = "elrondRpc.testSignTransaction" ->
                  LET testTransaction ==
                        ElrondTransaction(1, "10000000000000000000", address,
                                          reference, "testdata")
                  IN  Await("request",
                            << Request(topic, chainId, ElrondMethod(op),
                                       [transaction |-> testTransaction]) >>,
                            testTransaction)
             [] op = "elrondRpc.testSignTransactions" ->
                  Await("request",
                        << Request(topic, chainId, ElrondMethod(op),
                                   [transactions |-> ElrondBatch(address, reference)]) >>,
                        [list |-> ElrondBatch(address, reference)])
             [] op = "elrondRpc.testSignMessage" ->
                  Await("request",
                        << Request(topic, chainId, ElrondMethod(op),
                                   [address |-> address, message |-> ElrondMessage]) >>,
                        ElrondMessage)

\* ElrondReduce returning the verdict of the current item without acc
ElrondReduce_LastOnly(address, transactions, signatures, k) ==
  VerifyAgainst(address, signatures[Len(transactions)].signature,
                transactions[Len(transactions)])

RECURSIVE ElrondReduce(_, _, _, _)
\* [..].reduce((acc, current, index) => { applySignature(signatures[index]);
\*   return acc && verifier.verify(current) }, true) from item k on
ElrondReduce(address, transactions, signatures, k) ==
  IF k > Len(transactions) THEN TRUE
  ELSE VerifyAgainst(address, signatures[k].signature, transactions[k])
         /\ ElrondReduce(address, transactions, signatures, k + 1)

\* resultSignatures.join(", ")
Join(items) == [joined |-> items]

ElrondOnReply(s, reply) ==
  IF ~reply.ok THEN Throw(Rethrown(reply.error))
  ELSE IF s.op = "elrondRpc.testSignTransactions"
  THEN IF "signatures" \notin DOMAIN reply.value THEN Throw(Rethrown(TypeError))
       ELSE IF Len(reply.value.signatures) < Len(s.keep.list)
       THEN Throw(Rethrown(TypeError))
       ELSE IF \E k \in DOMAIN s.keep.list :
                 reply.value.signatures[k].signature = Malformed
       THEN Throw(Rethrown(Error(Text("Signature is invalid"))))
       ELSE LET valid == ElrondReduce(s.address, s.keep.list,
                                      reply.value.signatures, 1)
            IN  Return([method |-> ElrondMethod(s.op), address |-> s.address,
                        valid |-> valid,
                        result |-> Join([k \in DOMAIN reply.value.signatures |->
                                           reply.value.signatures[k].signature])],
                       Verdict("UserVerifier.verify", s.keep,
                               [list |-> reply.value.signatures], valid))
  ELSE IF "signature" \notin DOMAIN reply.value THEN Throw(Rethrown(TypeError))
  ELSE IF reply.value.signature = Malformed
  THEN Throw(Rethrown(Error(Text("Signature is invalid"))))
  ELSE LET signature == reply.value.signature
           valid == VerifyAgainst(s.address, signature, s.keep)
       IN  Return([method |-> ElrondMethod(s.op), address |-> s.address,
                   valid |-> valid, result |-> signature],
                  Verdict("UserVerifier.verify", s.keep, signature, valid))

(***************************************************************************)
(* The wallet and the network (external): what awaited promises may        *)
(* settle with.                                                            *)
(***************************************************************************)
\* the payload a request asks the wallet to sign
WalletPayload(request) ==
  LET m == request.method
      p == request.params
  IN  CASE m = "personal_sign" -> p[1].hex
        [] m = "eth_sign" -> p[2].hex
        [] m = "eth_signTypedData" -> p[2].json.message
        [] m = "eth_signTransaction" -> p[1]
        [] m = "cosmos_signDirect" -> p.signDoc.stringified
        [] m = "cosmos_signAmino" -> p.signDoc
        [] m = "solana_signMessage" -> p.message
        [] m = "solana_signTransaction" ->
             [feePayer |-> [base58 |-> p.feePayer],
              recentBlockhash |-> p.recentBlockhash,
              instructions |-> p.instructions]
        [] m = "polkadot_signTransaction" -> p.transactionPayload
        [] m = "polkadot_signMessage" -> p.message
        [] m = "erd_signTransaction" -> p.transaction
        [] m = "erd_signTransactions" -> [list |-> p.transactions]
        [] m = "erd_signMessage" -> p.message
        [] OTHER -> None

\* the keys the wallet may sign with, by table
SignersOf ==
  [ eip155   |-> { "0xAb", "0xCd" },
    cosmos   |-> { "cosmos1a", "cosmos1b" },
    solana   |-> { "solA", "solB" },
    polkadot |-> { "dotA", "dotB" },
    elrond   |-> { "erd1a", "erd1b" } ]

OtherPayload == Text("something else")

\* the signatures a wallet may return when asked to sign payload
SignaturesOn(payload, signers) ==
  { Signature(a, o) : a \in signers, o \in { payload, OtherPayload } }
    \cup { Malformed }

EmptyObject == [empty |-> TRUE]

\* the values client.request may resolve with for the request s sent last
Replies(s) ==
  LET request == s.sent[Len(s.sent)]
      t == TableOf(s.op)
  IN  CASE s.op = "ethereumRpc.testSendTransaction" -> { Text("0xhash") }
        [] s.op = "ethereumRpc.testSignTransaction" ->
             SignaturesOn(WalletPayload(request), SignersOf[t]) \cup { BrokenSignature }
        [] t = "eip155" -> SignaturesOn(WalletPayload(request), SignersOf[t])
        [] s.op = "elrondRpc.testSignTransactions" ->
             { [signatures |-> [k \in 1..3 |->
                  [signature |-> Signature(who[k], request.params.transactions[k])]]]
                 : who \in [1..3 -> SignersOf[t]] }
               \cup { [signatures |->
                         << [signature |-> Signature("erd1a", request.params.transactions[1])] >>],
                      [signatures |-> [k \in 1..3 |-> [signature |-> Malformed]]],
                      EmptyObject }
        [] t \in { "cosmos", "solana", "polkadot", "elrond" } ->
             { [signature |-> g] : g \in SignaturesOn(WalletPayload(request), SignersOf[t]) }
               \cup { EmptyObject }
        [] t = "chia" -> { [success |-> TRUE], [success |-> FALSE, error |-> "unknown command"] }
        [] s.op = "nearRpc.testSignAndSendTransaction" ->
             { [transaction |-> Text("hash1")], EmptyObject, Null }
        [] s.op = "nearRpc.testSignAndSendTransactions" ->
             { ListReply(<< [transaction |-> Text("hash1")], EmptyObject >>),
               [transaction |-> Text("hash1")] }

\* what client.request may settle with
TransportOutcomes(s) ==
  { Resolved(v) : v \in Replies(s) } \cup { Rejected(TransportError) }

\* what formatTestTransaction / connection.getRecentBlockhash may settle with
FetchOutcomes(s) ==
  IF TableOf(s.op) = "eip155"
  THEN { Resolved(tx) : tx \in FormattedTransactions(s.address) }
         \cup { Rejected(NetworkError) }
  ELSE { Resolved(Text("blockhash1")), Rejected(NetworkError) }

\* what cryptoWaitReady() may settle with
ReadyOutcomes == { Resolved(Text("ready")), Rejected(Error(Text("WASM failed to load"))) }

(***************************************************************************)
(* The routines of the tables, by the await they resume from.              *)
(***************************************************************************)
\* rpcRequest(chainId, address) up to its first await
Begin(op, chainId, address, topic, random) ==
  CASE op \in EthereumOps -> EthereumBegin(op, chainId, address, topic)
    [] op \in CosmosOps   -> CosmosBegin(op, chainId, address, topic)
    [] op \in SolanaOps   -> SolanaBegin(op, chainId, address, topic)
    [] op \in PolkadotOps -> PolkadotBegin(op, chainId, address, topic)
    [] op \in NearOps     -> NearBegin(op, chainId, address, topic)
    [] op \in ElrondOps   -> ElrondBegin(op, chainId, address, topic)
    [] op \in ChiaOps     -> ChiaBegin(op, chainId, address, topic, random)

AfterFetch(s, fetched, generated) ==
  IF s.op \in EthereumOps THEN EthereumAfterFormat(s, fetched)
  ELSE SolanaAfterBlockhash(s, fetched, generated)

\* OnReply sending a rejected request once more
OnReply_RetryOnce(s, reply) ==
  IF ~reply.ok /\ Len(s.sent) < 2
  THEN Await("request", << s.sent[Len(s.sent)] >>, s.keep)
  ELSE CASE s.op \in EthereumOps -> EthereumOnReply(s, reply)
         [] s.op \in CosmosOps   -> CosmosOnReply(s, reply)
         [] s.op \in SolanaOps   -> SolanaOnReply(s, reply)
         [] s.op \in PolkadotOps -> PolkadotOnReply(s, reply)
         [] s.op \in NearOps     -> NearOnReply(s, reply)
         [] s.op \in ElrondOps   -> ElrondOnReply(s, reply)
         [] s.op \in ChiaOps     -> ChiaOnReply(s, reply)

OnReply(s, reply) ==
  CASE s.op \in EthereumOps -> EthereumOnReply(s, reply)
    [] s.op \in CosmosOps   -> CosmosOnReply(s, reply)
    [] s.op \in SolanaOps   -> SolanaOnReply(s, reply)
    [] s.op \in PolkadotOps -> PolkadotOnReply(s, reply)
    [] s.op \in NearOps     -> NearOnReply(s, reply)
    [] s.op \in ElrondOps   -> ElrondOnReply(s, reply)
    [] s.op \in ChiaOps     -> ChiaOnReply(s, reply)

(***************************************************************************)
(* The dispatch wrapper _createJsonRpcRequestHandler and ping.             *)
(***************************************************************************)
\* the error the checks at the head of a handler throw, None if they pass
\* PreconditionError testing the session before the client
PreconditionError_SessionFirst ==
  IF session = None THEN NotConnected
  ELSE IF ~client THEN NotInitialized
  ELSE None

PreconditionError ==
  IF ~client THEN NotInitialized
  ELSE IF session = None THEN NotConnected
  ELSE None

\* WrapperThen storing a record rebuilt without its method
WrapperThen_NoMethod(value) ==
  [address |-> value.address, valid |-> value.valid, result |-> value.result]

\* setResult(result) after rpcRequest resolved
WrapperThen(value) == value

\* WrapperCatch storing the error's name for its message
WrapperCatch_Name(address, err) ==
  [address |-> address, valid |-> FALSE, result |-> Text(err.name)]

\* WrapperCatch reporting the failure as a success
WrapperCatch_Valid(address, err) ==
  [address |-> address, valid |-> TRUE, result |-> err.message]

\* setResult({ address, valid: false, result: err?.message ?? err })
WrapperCatch(address, err) ==
  [address |-> address, valid |-> FALSE, result |-> err.message]

\* the record the wrapper stores for the way the routine ended
WrapperResult(s, out) ==
  IF out.k = "return" THEN WrapperThen(out.value)
  ELSE WrapperCatch(s.address, out.error)

\* the record ping stores
PingResult(valid) ==
  [method |-> "ping", valid |-> valid,
   result |-> Text(IF valid THEN "Ping succeeded" ELSE "Ping failed")]

\* what client.ping may settle with
PingOutcomes == { Resolved(None), Rejected(TransportError) }

\* PingValid with valid = true set before the await
PingValid_Always(settled) == TRUE

\* try { await client.ping(...); valid = true } catch (e) { valid = false }
PingValid(settled) == settled.ok

InFlight(i) == inv[i].pc \notin { "idle", "rejected", "done" }

\* the invocations are numbered in the order they are made
NextInvocation(i) ==
  /\ inv[i].pc = "idle"
  /\ \A j \in Invocations : j < i => inv[j].pc /= "idle"

\* Reject with setPending(true) moved above the checks of the handler
Reject_PendingFirst(i, kind) ==
  /\ inv' = [inv EXCEPT ![i] =
               [pc |-> "rejected", kind |-> kind, error |-> PreconditionError]]
  /\ pending' = TRUE
  /\ UNCHANGED << result, last >>

\* the handler of invocation i throws at its head: nothing is set, the
\* caller gets the rejection
Reject(i, kind) ==
  /\ inv' = [inv EXCEPT ![i] =
               [pc |-> "rejected", kind |-> kind, error |-> PreconditionError]]
  /\ UNCHANGED << pending, result, last >>

\* Finish with setPending(false) at the end of the try block instead of in
\* a finally block
Finish_NoFinally(i, s, out) ==
  /\ result' = WrapperResult(s, out)
  /\ pending' = (IF out.k = "return" THEN FALSE ELSE pending)
  /\ inv' = [inv EXCEPT ![i] = [pc |-> "done"]]
  /\ last' = [id |-> i, op |-> s.op, chainId |-> s.chainId, address |-> s.address,
              topic |-> s.topic, sent |-> s.sent, fetched |-> s.fetched,
              got |-> s.got, out |-> out]

\* Finish keeping a result that is already there
Finish_FirstWins(i, s, out) ==
  /\ result' = (IF result = Undefined THEN WrapperResult(s, out) ELSE result)
  /\ pending' = FALSE
  /\ inv' = [inv EXCEPT ![i] = [pc |-> "done"]]
  /\ last' = [id |-> i, op |-> s.op, chainId |-> s.chainId, address |-> s.address,
              topic |-> s.topic, sent |-> s.sent, fetched |-> s.fetched,
              got |-> s.got, out |-> out]

\* the wrapper's try/catch/finally once the routine of invocation i (in
\* state s) has ended with out: setResult, then setPending(false)
Finish(i, s, out) ==
  /\ result' = WrapperResult(s, out)
  /\ pending' = FALSE
  /\ inv' = [inv EXCEPT ![i] = [pc |-> "done"]]
  /\ last' = [id |-> i, op |-> s.op, chainId |-> s.chainId, address |-> s.address,
              topic |-> s.topic, sent |-> s.sent, fetched |-> s.fetched,
              got |-> s.got, out |-> out]

\* invocation i (in state s) goes on after a run of its routine that ended
\* with step
\* Continue clearing pending as soon as the first await of the routine settles
Continue_ClearsEarly(i, s, step) ==
  IF step.k = "await"
  THEN /\ inv' = [inv EXCEPT ![i] =
                    [s EXCEPT !.pc = step.pc, !.sent = s.sent \o step.sent,
                              !.keep = step.keep]]
       /\ pending' = FALSE
       /\ UNCHANGED << result, last >>
  ELSE Finish(i, s, step)

Continue(i, s, step) ==
  IF step.k = "await"
  THEN /\ inv' = [inv EXCEPT ![i] =
                    [s EXCEPT !.pc = step.pc, !.sent = s.sent \o step.sent,
                              !.keep = step.keep]]
       /\ UNCHANGED << pending, result, last >>
  ELSE Finish(i, s, step)

Environment ==
  << client, session, accounts, balances, chainData, solanaPublicKeys, table,
     sessions >>

\* Invoke abandoning the operations in flight when a new one starts
Invoke_Supersedes(i, op, chainId, address) ==
  /\ NextInvocation(i)
  /\ op \in Tables[table]
  /\ chainId \in ChainIdsOf[table]
  /\ address \in AddressesOf[table]
  /\ IF PreconditionError /= None
     THEN Reject(i, "wrapped")
     ELSE \E random \in OfferDraws(op) :
          LET s0 == [pc |-> "start", op |-> op, chainId |-> chainId,
                     address |-> address, topic |-> session.topic,
                     sent |-> << >>, fetched |-> None, got |-> None,
                     keep |-> None]
              step == Begin(op, chainId, address, session.topic, random)
          IN  /\ pending' = TRUE
              /\ inv' = [j \in Invocations |->
                           IF j = i
                           THEN IF step.k = "await"
                                THEN [s0 EXCEPT !.pc = step.pc, !.sent = step.sent,
                                                !.keep = step.keep]
                                ELSE [s0 EXCEPT !.pc = "settled", !.keep = step]
                           ELSE IF InFlight(j) THEN [pc |-> "done"] ELSE inv[j]]
              /\ UNCHANGED << result, last >>
  /\ UNCHANGED Environment

\* Invoke refusing an operation while another one is pending
Invoke_RejectWhenBusy(i, op, chainId, address) ==
  /\ NextInvocation(i)
  /\ op \in Tables[table]
  /\ chainId \in ChainIdsOf[table]
  /\ address \in AddressesOf[table]
  /\ IF PreconditionError /= None \/ pending
     THEN Reject(i, "wrapped")
     ELSE \E random \in OfferDraws(op) :
          LET s0 == [pc |-> "start", op |-> op, chainId |-> chainId,
                     address |-> address, topic |-> session.topic,
                     sent |-> << >>, fetched |-> None, got |-> None,
                     keep |-> None]
              step == Begin(op, chainId, address, session.topic, random)
          IN  /\ pending' = TRUE
              /\ inv' = [inv EXCEPT ![i] =
                           IF step.k = "await"
                           THEN [s0 EXCEPT !.pc = step.pc, !.sent = step.sent,
                                           !.keep = step.keep]
                           ELSE [s0 EXCEPT !.pc = "settled", !.keep = step]]
              /\ UNCHANGED << result, last >>
  /\ UNCHANGED Environment

(* A wrapped operation is invoked.  With client or session undefined the   *)
(* handler throws at once.  Otherwise setPending(true), and rpcRequest     *)
(* runs to its first await; if it threw before that, the wrapper is left   *)
(* suspended at its own await with the rejection in hand.                  *)
\* Invoke clearing the current result when the operation starts
Invoke_ClearsResult(i, op, chainId, address) ==
  /\ NextInvocation(i)
  /\ op \in Tables[table]
  /\ chainId \in ChainIdsOf[table]
  /\ address \in AddressesOf[table]
  /\ IF PreconditionError /= None
     THEN Reject(i, "wrapped")
     ELSE \E random \in OfferDraws(op) :
          LET s0 == [pc |-> "start", op |-> op, chainId |-> chainId,
                     address |-> address, topic |-> session.topic,
                     sent |-> << >>, fetched |-> None, got |-> None,
                     keep |-> None]
              step == Begin(op, chainId, address, session.topic, random)
          IN  /\ pending' = TRUE
              /\ result' = Undefined
              /\ inv' = [inv EXCEPT ![i] =
                           IF step.k = "await"
                           THEN [s0 EXCEPT !.pc = step.pc, !.sent = step.sent,
                                           !.keep = step.keep]
                           ELSE [s0 EXCEPT !.pc = "settled", !.keep = step]]
              /\ UNCHANGED last
  /\ UNCHANGED Environment

Invoke(i, op, chainId, address) ==
  /\ NextInvocation(i)
  /\ op \in Tables[table]
  /\ chainId \in ChainIdsOf[table]
  /\ address \in AddressesOf[table]
  /\ IF PreconditionError /= None
     THEN Reject(i, "wrapped")
     ELSE \E random \in OfferDraws(op) :
          LET s0 == [pc |-> "start", op |-> op, chainId |-> chainId,
                     address |-> address, topic |-> session.topic,
                     sent |-> << >>, fetched |-> None, got |-> None,
                     keep |-> None]
              step == Begin(op, chainId, address, session.topic, random)
          IN  /\ pending' = TRUE
              /\ inv' = [inv EXCEPT ![i] =
                           IF step.k = "await"
                           THEN [s0 EXCEPT !.pc = step.pc, !.sent = step.sent,
                                           !.keep = step.keep]
                           ELSE [s0 EXCEPT !.pc = "settled", !.keep = step]]
              /\ UNCHANGED << result, last >>
  /\ UNCHANGED Environment

\* the wrapper resumes with the rejection of a routine that threw before
\* its first await
\* Complete letting an error thrown before the first await escape to the caller
Complete_Rethrows(i) ==
  /\ inv[i].pc = "settled"
  /\ IF inv[i].keep.k = "throw"
     THEN /\ inv' = [inv EXCEPT ![i] = [pc |-> "rejected", kind |-> "wrapped",
                                        error |-> inv[i].keep.error]]
          /\ pending' = FALSE
          /\ UNCHANGED << result, last >>
     ELSE Finish(i, inv[i], inv[i].keep)
  /\ UNCHANGED Environment

Complete(i) ==
  /\ inv[i].pc = "settled"
  /\ Finish(i, inv[i], inv[i].keep)
  /\ UNCHANGED Environment

\* formatTestTransaction / getRecentBlockhash settles for invocation i
\* FetchSettle reading the session anew when the routine resumes
FetchSettle_ReadsSession(i) ==
  /\ inv[i].pc = "fetch"
  /\ \E fetched \in FetchOutcomes(inv[i]), generated \in KeyDraws(inv[i].op) :
       LET s == [inv[i] EXCEPT !.fetched = fetched,
                               !.topic = IF session = None THEN 0 ELSE session.topic]
       IN  Continue(i, s, AfterFetch(s, fetched, generated))
  /\ UNCHANGED Environment

FetchSettle(i) ==
  /\ inv[i].pc = "fetch"
  /\ \E fetched \in FetchOutcomes(inv[i]), generated \in KeyDraws(inv[i].op) :
       LET s == [inv[i] EXCEPT !.fetched = fetched]
       IN  Continue(i, s, AfterFetch(s, fetched, generated))
  /\ UNCHANGED Environment

\* client.request settles for invocation i
Respond(i) ==
  /\ inv[i].pc = "request"
  /\ \E reply \in TransportOutcomes(inv[i]) :
       LET s == [inv[i] EXCEPT !.got = reply]
       IN  Continue(i, s, OnReply(s, reply))
  /\ UNCHANGED Environment

\* verifyDirectSignature / verifyAminoSignature settles for invocation i
VerifySettle(i) ==
  /\ inv[i].pc = "verify"
  /\ Continue(i, inv[i], CosmosOnVerified(inv[i]))
  /\ UNCHANGED Environment

\* cryptoWaitReady() settles for invocation i
ReadySettle(i) ==
  /\ inv[i].pc = "cryptoWaitReady"
  /\ \E ready \in ReadyOutcomes :
       Continue(i, inv[i], PolkadotOnReady(inv[i], ready))
  /\ UNCHANGED Environment

\* ping is invoked: the same checks, setPending(true), client.ping sent
Ping(i) ==
  /\ NextInvocation(i)
  /\ IF PreconditionError /= None
     THEN Reject(i, "ping")
     ELSE /\ pending' = TRUE
          /\ inv' = [inv EXCEPT ![i] =
                       [pc |-> "ping", op |-> "ping", topic |-> session.topic,
                        sent |-> << [topic |-> session.topic] >>]]
          /\ UNCHANGED << result, last >>
  /\ UNCHANGED Environment

\* PingSettle dropping the session when the keep-alive fails
\* PingSettle clearing pending only when the keep-alive was answered
PingSettle_ClearsOnSuccess(i) ==
  /\ inv[i].pc = "ping"
  /\ \E settled \in PingOutcomes :
       /\ result' = PingResult(PingValid(settled))
       /\ last' = [id |-> i, op |-> "ping", topic |-> inv[i].topic,
                   sent |-> inv[i].sent, got |-> settled]
       /\ pending' = (pending /\ ~settled.ok)
  /\ inv' = [inv EXCEPT ![i] = [pc |-> "done"]]
  /\ UNCHANGED Environment

PingSettle_DropsSession(i) ==
  /\ inv[i].pc = "ping"
  /\ \E settled \in PingOutcomes :
       /\ result' = PingResult(PingValid(settled))
       /\ last' = [id |-> i, op |-> "ping", topic |-> inv[i].topic,
                   sent |-> inv[i].sent, got |-> settled]
       /\ session' = (IF settled.ok THEN session ELSE None)
  /\ pending' = FALSE
  /\ inv' = [inv EXCEPT ![i] = [pc |-> "done"]]
  /\ UNCHANGED << client, accounts, balances, chainData, solanaPublicKeys, table,
                  sessions >>

\* client.ping({ topic }) settles for invocation i: the inner try/catch
\* turns the way it settled into valid, then setResult, setPending(false)
PingSettle(i) ==
  /\ inv[i].pc = "ping"
  /\ \E settled \in PingOutcomes :
       /\ result' = PingResult(PingValid(settled))
       /\ last' = [id |-> i, op |-> "ping", topic |-> inv[i].topic,
                   sent |-> inv[i].sent, got |-> settled]
  /\ pending' = FALSE
  /\ inv' = [inv EXCEPT ![i] = [pc |-> "done"]]
  /\ UNCHANGED Environment

(***************************************************************************)
(* The session client (ClientContext, external): the client is created,    *)
(* a session is established, the session ends.                             *)
(***************************************************************************)
ClientInit ==
  /\ ~client
  /\ client' = TRUE
  /\ UNCHANGED << session, accounts, balances, chainData, solanaPublicKeys,
                  pending, result, table, sessions, inv, last >>

Connect ==
  /\ client
  /\ session = None
  /\ sessions < MaxSessions
  /\ session' = [topic |-> sessions + 1]
  /\ sessions' = sessions + 1
  /\ UNCHANGED << client, accounts, balances, chainData, solanaPublicKeys,
                  pending, result, table, inv, last >>

Disconnect ==
  /\ session /= None
  /\ session' = None
  /\ UNCHANGED << client, accounts, balances, chainData, solanaPublicKeys,
                  pending, result, table, sessions, inv, last >>

(***************************************************************************)
(* The specification.                                                      *)
(***************************************************************************)
Init ==
  /\ client = FALSE
  /\ session = None
  /\ sessions = 0
  /\ table \in DOMAIN Tables
  /\ accounts = SessionAccounts
  /\ balances \in (IF table = "eip155" THEN BalanceMaps ELSE { [ a \in { } |-> << >> ] })
  /\ chainData = ChainDataTable
  /\ solanaPublicKeys \in (IF table = "solana" THEN SolanaKeyMaps ELSE { [defined |-> FALSE] })
  /\ pending = FALSE
  /\ result = Undefined
  /\ inv = [i \in Invocations |-> Idle]
  /\ last = [id |-> 0]

Next ==
  \/ ClientInit
  \/ Connect
  \/ Disconnect
  \/ \E i \in Invocations, op \in WrappedOps :
       \E chainId \in ChainIdsOf[TableOf(op)], address \in AddressesOf[TableOf(op)] :
         Invoke(i, op, chainId, address)
  \/ \E i \in Invocations : Complete(i)
  \/ \E i \in Invocations : FetchSettle(i)
  \/ \E i \in Invocations : Respond(i)
  \/ \E i \in Invocations : VerifySettle(i)
  \/ \E i \in Invocations : ReadySettle(i)
  \/ \E i \in Invocations : Ping(i)
  \/ \E i \in Invocations : PingSettle(i)

Spec == Init /\ [][Next]_vars

(* Every awaited promise settles, and a resumed handler runs: the          *)
(* assumption under which the liveness of the wrapper is stated.           *)
FairSpec ==
  /\ Spec
  /\ \A i \in Invocations :
       /\ WF_vars(Complete(i))
       /\ WF_vars(FetchSettle(i))
       /\ WF_vars(Respond(i))
       /\ WF_vars(VerifySettle(i))
       /\ WF_vars(ReadySettle(i))
       /\ WF_vars(PingSettle(i))

(***************************************************************************)
(* Properties.                                                             *)
(***************************************************************************)
\* invocation i is made in this step
Starts(i) == inv[i].pc = "idle" /\ inv'[i].pc /= "idle"

\* invocation i made in this step is of an entry of a method table
StartsWrapped(i) ==
  /\ Starts(i)
  /\ IF inv'[i].pc = "rejected" THEN inv'[i].kind = "wrapped"
                                ELSE inv'[i].op \in WrappedOps

\* invocation i ends in this step
Ends(i) == InFlight(i) /\ inv'[i].pc = "done"

Others(i) == Invocations \ { i }

LastIsWrapped == last.id > 0 /\ last.op \in WrappedOps

\* C1: a wrapped operation invoked while the client or the session is
\* undefined throws the not-initialized / not-connected error, that
\* invocation does not set pending, and pending is false when it ends
\* unless another operation is in flight.
C1_FailsFast ==
  [][ \A i \in Invocations :
        ( StartsWrapped(i) /\ (~client \/ session = None) )
        => /\ inv'[i].pc = "rejected"
           /\ inv'[i].error = (IF ~client THEN NotInitialized ELSE NotConnected)
           /\ pending' = pending
           /\ (\A j \in Others(i) : ~InFlight(j)) => pending' = FALSE ]_vars

\* a wrapped operation was refused for want of a session while another
\* operation was in flight
C1_Witness ==
  \E i \in Invocations :
    /\ inv[i].pc = "rejected"
    /\ inv[i].kind = "wrapped"
    /\ inv[i].error = NotConnected
    /\ \E j \in Others(i) : InFlight(j)

\* C2: when the wrapped routine resolves or rejects, the wrapper sets
\* pending to false on either path; and if every awaited promise settles,
\* every invocation that passed the checks ends.
C2_PendingReleased ==
  /\ [][ \A i \in Invocations : Ends(i) => pending' = FALSE ]_vars
  /\ \A i \in Invocations : InFlight(i) ~> (inv[i].pc = "done")

\* a wrapped operation ended on the failure path and pending is false
C2_Witness ==
  /\ LastIsWrapped
  /\ last.out.k = "throw"
  /\ inv[last.id].pc = "done"
  /\ ~pending

\* C3: when the wrapped routine resolves with a record, the wrapper stores
\* exactly that record as the current result.
C3_StoresReturnedRecord ==
  (LastIsWrapped /\ last.out.k = "return") => result = last.out.value

\* a routine returned a record with valid = true and it is the result
C3_Witness ==
  /\ LastIsWrapped
  /\ last.out.k = "return"
  /\ last.out.value.valid
  /\ result = last.out.value

\* C4: when the wrapped routine fails, the wrapper stores a record with
\* valid = false, result = the error's message, address = the address of
\* the invocation, and no method.
C4_StoresFailure ==
  (LastIsWrapped /\ last.out.k = "throw")
    => /\ DOMAIN result = { "address", "valid", "result" }
       /\ result.valid = FALSE
       /\ result.result = last.out.error.message
       /\ result.address = last.address

\* the transport rejected the request of a wrapped operation
C4_Witness ==
  /\ LastIsWrapped
  /\ last.out.k = "throw"
  /\ last.got = Rejected(TransportError)
  /\ result.valid = FALSE

\* the record the wrapper's catch block makes of error for address
FailureRecord(address, error) ==
  [address |-> address, valid |-> FALSE, result |-> error.message]

\* C5: after any invocation of a wrapped operation that fails, the one
\* that fails the no-client / no-session checks included, the current
\* result is a valid = false record describing that failure.
C5_EveryFailureSurfaced ==
  [][ \A i \in Invocations :
        /\ (StartsWrapped(i) /\ inv'[i].pc = "rejected")
             => /\ "valid" \in DOMAIN result'
                /\ result'.valid = FALSE
                /\ result'.result = inv'[i].error.message
        /\ (Ends(i) /\ last'.op \in WrappedOps /\ last'.out.k = "throw")
             => result' = FailureRecord(last'.address, last'.out.error) ]_vars

IsValid(record) == "valid" \in DOMAIN record /\ record.valid

\* C6: a current result with valid = true comes from an invocation whose
\* transport call (request or ping) resolved and, for a wrapped operation,
\* whose routine returned without throwing.
C6_NoFalsePositive ==
  IsValid(result)
    => /\ last.id > 0
       /\ last.sent /= << >>
       /\ "ok" \in DOMAIN last.got
       /\ last.got.ok
       /\ last.op \in WrappedOps => (last.out.k = "return" /\ result = last.out.value)

\* a wrapped operation whose request resolved and whose verifier gave a
\* verdict returned valid = true, and that is the current result
C6_Witness ==
  /\ LastIsWrapped
  /\ IsValid(result)
  /\ last.got.ok
  /\ last.out.k = "return"
  /\ last.out.verdict /= NoVerdict

VerifiedTables == { "eip155", "cosmos", "solana", "polkadot", "elrond" }

\* the signature(s) in what the wallet answered
ResponseSignature(value) ==
  IF "signature" \in DOMAIN value THEN value.signature
  ELSE IF "signatures" \in DOMAIN value THEN [list |-> value.signatures]
  ELSE value

\* the operation ended last returned valid = true after the verifier named
\* in its verdict returned true on payload and the wallet's response
VerifiedOn(payload) ==
  /\ last.out.verdict /= NoVerdict
  /\ last.out.verdict.value = TRUE
  /\ last.out.verdict.payload = payload
  /\ last.out.verdict.signature = ResponseSignature(last.got.value)

LastReturnedValid ==
  /\ LastIsWrapped
  /\ TableOf(last.op) \in VerifiedTables
  /\ last.out.k = "return"
  /\ last.out.value.valid

InsufficientFundsRecord(address) ==
  [method |-> "eth_sendTransaction", address |-> address, valid |-> FALSE,
   result |-> Text("Insufficient funds for intrinsic transaction cost")]

\* EVM testSendTransaction ended last, with the balance of its account
\* below gasPrice x gasLimit of the transaction formatTestTransaction gave
LastSendUnderfunded ==
  /\ LastIsWrapped
  /\ last.op = "ethereumRpc.testSendTransaction"
  /\ "ok" \in DOMAIN last.fetched
  /\ last.fetched.ok
  /\ LET balance == AccountBalance(CaipAccountAddress(last.chainId, last.address))
     IN  /\ balance /= None
         /\ balance.value < last.fetched.value.gasPrice * last.fetched.value.gasLimit

\* C8: EVM testSendTransaction with a balance below gasPrice x gasLimit
\* returns (does not throw) the record {eth_sendTransaction, valid = false,
\* insufficient funds} and sends no request.
C8_InsufficientFundsShortCircuit ==
  LastSendUnderfunded
    => /\ last.out.k = "return"
       /\ last.out.value = InsufficientFundsRecord(last.address)
       /\ result = InsufficientFundsRecord(last.address)
       /\ last.sent = << >>

\* testSendTransaction ended with a balance of 1 against a cost of 2
C8_Witness ==
  /\ LastSendUnderfunded
  /\ AccountBalance(CaipAccountAddress(last.chainId, last.address)).value = 1
  /\ result = InsufficientFundsRecord(last.address)

\* chainId:address is in the session's account list
InAccounts(chainId, address) ==
  \E account \in accounts : account = CaipAccountAddress(chainId, address)

\* the signing operations: every entry of every table but Chia's
SigningOps == WrappedOps \ ChiaOps

\* the operations op ranges over send no request for an account that is
\* not in the session's account list, and end with valid = false
AccountChecked(ops) ==
  /\ \A i \in Invocations :
       (InFlight(i) /\ inv[i].op \in ops
          /\ ~InAccounts(inv[i].chainId, inv[i].address))
         => inv[i].sent = << >>
  /\ (LastIsWrapped /\ last.op \in ops /\ ~InAccounts(last.chainId, last.address))
       => /\ last.sent = << >>
          /\ result.valid = FALSE

ChainDataOps ==
  { "ethereumRpc.testSignPersonalMessage", "ethereumRpc.testEthSign",
    "cosmosRpc.testSignDirect", "cosmosRpc.testSignAmino" }

\* the chain metadata table has no entry for (namespace, reference)
MissingChainData(chainId) ==
  LET parts == Split(chainId)
  IN  \/ Element(parts, 1) \notin DOMAIN chainData
      \/ Element(parts, 2) \notin chainData[Element(parts, 1)]

\* C10: an operation that requires chain data, invoked for a chainId with
\* no entry in the chain metadata table, sends no request and ends with a
\* valid = false result reporting the missing chain data of that chainId.
C10_ChainDataBeforeRequest ==
  /\ \A i \in Invocations :
       (InFlight(i) /\ inv[i].op \in ChainDataOps /\ MissingChainData(inv[i].chainId))
         => inv[i].sent = << >>
  /\ (LastIsWrapped /\ last.op \in ChainDataOps /\ MissingChainData(last.chainId))
       => /\ last.sent = << >>
          /\ result = [address |-> last.address, valid |-> FALSE,
                       result |-> TextAbout("Missing chain data for chainId: ${chainId}",
                                            last.chainId)]

\* the operation ended last returned after its verifier gave the verdict
\* false
LastVerdictFalse ==
  /\ LastIsWrapped
  /\ last.out.k = "return"
  /\ last.out.verdict /= NoVerdict
  /\ last.out.verdict.value = FALSE

\* the signature(s) of the wallet's answer as a result record shows them
ShownSignature(value) ==
  IF "signatures" \in DOMAIN value
  THEN Join([k \in DOMAIN value.signatures |-> value.signatures[k].signature])
  ELSE ResponseSignature(value)

\* C11: when the verifier of an operation rejects the signature the wallet
\* returned (verdict false, nothing thrown), the stored result has
\* valid = false, the method of the operation, and in its result field
\* the signature the wallet returned.
C11_VerificationFailureIsNormal ==
  LastVerdictFalse
    => /\ DOMAIN result = { "method", "address", "valid", "result" }
       /\ result.valid = FALSE
       /\ result.method \in { last.sent[1].method,
                              last.sent[1].method \o " (standard)" }
       /\ result.address = last.address
       /\ result.result = ShownSignature(last.got.value)

\* testSignPersonalMessage ended with a signature over the message made
\* by an address other than the one it was invoked with
C11_Witness ==
  /\ LastVerdictFalse
  /\ last.op = "ethereumRpc.testSignPersonalMessage"
  /\ IsSignature(last.got.value)
  /\ last.got.value.signer = "0xCd"
  /\ last.address = "0xAb"
  /\ result.valid = FALSE
  /\ result.result = last.got.value

\* the operation ended last was invoked for an account of the session,
\* its request resolved, and its routine returned a record
LastAnswered ==
  /\ LastIsWrapped
  /\ InAccounts(last.chainId, last.address)
  /\ Len(last.sent) = 1
  /\ "ok" \in DOMAIN last.got
  /\ last.got.ok
  /\ last.out.k = "return"

\* C12: an entry of a method table, invoked for a known account and whose
\* request resolves, stores a record whose method is a defined string and
\* exactly the wire method of the request it sent.
C12_MethodIsWireMethod ==
  LastAnswered
    => /\ "method" \in DOMAIN result
       /\ result.method /= UndefinedMethod
       /\ result.method = last.sent[1].method

\* the members of the method enumeration of each table
DeclaredMethods ==
  [ eip155   |-> DEFAULT_EIP155_METHODS,
    cosmos   |-> DEFAULT_COSMOS_METHODS,
    solana   |-> DEFAULT_SOLANA_METHODS,
    polkadot |-> DEFAULT_POLKADOT_METHODS,
    near     |-> DEFAULT_NEAR_METHODS,
    elrond   |-> DEFAULT_ELROND_METHODS,
    chia     |-> DEFAULT_CHIA_METHODS ]

IsDeclared(op, method) ==
  \E name \in DOMAIN DeclaredMethods[TableOf(op)] :
    DeclaredMethods[TableOf(op)][name] = method

MostRecent(i) ==
  /\ inv[i].pc /= "idle"
  /\ \A j \in Invocations : j > i => inv[j].pc = "idle"

\* C14: while the operation started most recently is in flight, pending
\* is true, also when an operation started earlier ends in the meantime.
C14_PendingTracksMostRecent ==
  \A i \in Invocations : (MostRecent(i) /\ InFlight(i)) => pending

\* the record an invocation that ended as last tells leaves behind
RecordOf(ended) ==
  IF ended.op = "ping"
  THEN [method |-> "ping", valid |-> ended.got.ok,
        result |-> Text(IF ended.got.ok THEN "Ping succeeded" ELSE "Ping failed")]
  ELSE IF ended.out.k = "return" THEN ended.out.value
  ELSE FailureRecord(ended.address, ended.out.error)

\* C15: every completion overwrites the current result with its own
\* record and nothing else writes it, so once all operations in flight
\* have ended the current result is the record of the one that ended
\* last, whatever the order in which they were started.
C15_LastCompletionWins ==
  [][ /\ \A i \in Invocations :
           Ends(i) => (last'.id = i /\ result' = RecordOf(last'))
      /\ result' /= result => \E i \in Invocations : Ends(i) ]_vars

\* two operations overlapped, the one started second ended first, and the
\* current result is the record of the one started first
C15_Witness ==
  /\ last.id = 1
  /\ inv[1].pc = "done"
  /\ inv[2].pc = "done"
  /\ result = RecordOf(last)

\* the operations whose routine sends its request before any other await
RequestFirstOps ==
  (WrappedOps \ { "ethereumRpc.testSendTransaction",
                  "ethereumRpc.testSignTransaction",
                  "solanaRpc.testSignTransaction" })

\* C16: an operation invoked while pending is true, with client and
\* session present, is neither rejected nor queued: its routine runs at
\* once, and where the routine begins with its request the request is
\* sent in the same step.
C16_PendingIsNoMutex ==
  [][ \A i \in Invocations :
        (StartsWrapped(i) /\ pending /\ PreconditionError = None)
          => /\ inv'[i].pc \in { "fetch", "request", "settled" }
             /\ pending'
             /\ (inv'[i].pc = "request" /\ inv'[i].op \in RequestFirstOps)
                  => (Len(inv'[i].sent) = 1 /\ inv'[i].sent[1].topic = session.topic)
             /\ inv'[i].pc = "settled" => inv'[i].keep.k = "throw" ]_vars

\* two requests are in flight at once
C16_Witness ==
  /\ pending
  /\ \A i \in Invocations :
       /\ inv[i].pc = "request"
       /\ inv[i].op \in RequestFirstOps
       /\ Len(inv[i].sent) = 1

\* how far the handler of an invocation has come
Stage(pc) ==
  CASE pc = "idle" -> 0
    [] pc \in { "fetch", "settled", "ping" } -> 1
    [] pc = "request" -> 2
    [] pc \in { "verify", "cryptoWaitReady" } -> 3
    [] pc \in { "done", "rejected" } -> 4

\* C17: one invocation of a wrapped operation runs its routine once, from
\* start to end, and sends at most one request; once it has ended, failed
\* or not, it sends nothing more.
C17_NoRetries ==
  /\ [](\A i \in Invocations : InFlight(i) => Len(inv[i].sent) <= 1)
  /\ [](LastIsWrapped => Len(last.sent) <= 1)
  /\ [][ \A i \in Invocations :
           inv'[i] /= inv[i]
             => /\ Stage(inv'[i].pc) > Stage(inv[i].pc)
                /\ (inv[i].pc = "request" /\ inv[i].op \in WrappedOps)
                     => (inv'[i].pc /= "done" => inv'[i].sent = inv[i].sent) ]_vars

\* the request of a wrapped operation was rejected and the invocation
\* ended with that one request sent
C17_Witness ==
  /\ LastIsWrapped
  /\ last.got = Rejected(TransportError)
  /\ Len(last.sent) = 1
  /\ inv[last.id].pc = "done"
  /\ \A i \in Invocations : ~InFlight(i)

\* invocation i awaits the session transport
AwaitsTransport(i) == inv[i].pc \in { "request", "ping" }

\* C18: while an invocation awaits the transport, only the settling of
\* its own call moves it on; and the result is written and pending
\* cleared only by a handler that ends, never by a timer or a
\* cancellation: an invocation whose call never settles stays in flight.
C18_NoTimeoutNoCancel ==
  [][ /\ \A i \in Invocations :
           (AwaitsTransport(i) /\ inv'[i] /= inv[i])
             => (Respond(i) \/ PingSettle(i))
      /\ result' /= result => \E i \in Invocations : Ends(i)
      /\ (pending /\ ~pending') => \E i \in Invocations : Ends(i) ]_vars

\* an invocation still awaits its request after the session it was sent
\* on has ended and the other invocation has come and gone
C18_Witness ==
  \E i \in Invocations :
    /\ inv[i].pc = "request"
    /\ Len(inv[i].sent) = 1
    /\ session = None
    /\ \A j \in Others(i) : inv[j].pc \in { "done", "rejected" }

\* some invocation takes a step
SomeStep == \E i \in Invocations : inv'[i] /= inv[i]

\* invocation i is resumed and suspended again: a run of its routine
\* alone, between two awaits
RoutineStep(i) ==
  /\ InFlight(i)
  /\ inv'[i] /= inv[i]
  /\ inv'[i].pc \notin { "done", "rejected" }

\* C19: no step of an operation changes the client, the session handle,
\* the account list, the balance map, the chain-data table or the Solana
\* keys; pending and result change only in steps of an operation, and not
\* in a run of a chain routine between two awaits.
C19_Frame ==
  [][ /\ SomeStep
        => UNCHANGED << client, session, accounts, balances, chainData,
                        solanaPublicKeys >>
      /\ (pending' /= pending \/ result' /= result) => SomeStep
      /\ \A i \in Invocations : RoutineStep(i) => UNCHANGED << pending, result >> ]_vars

\* a ping failed and the session it was sent on is still the session
C19_Witness ==
  /\ last.id > 0
  /\ last.op = "ping"
  /\ ~last.got.ok
  /\ session /= None
  /\ session.topic = last.topic
  /\ accounts = SessionAccounts
  /\ chainData = ChainDataTable

\* C20: ping, invoked with client and session present, sends one
\* keep-alive on the topic of the session and no chain request and sets
\* pending; when the keep-alive settles ping ends (it does not reject),
\* clears pending and stores {method "ping", valid, result} with valid
\* true and "Ping succeeded" iff the keep-alive resolved, false and
\* "Ping failed" iff it rejected.
C20_Ping ==
  [][ \A i \in Invocations :
        /\ (Starts(i) /\ ~StartsWrapped(i) /\ PreconditionError = None)
             => /\ inv'[i].pc = "ping"
                /\ inv'[i].sent = << [topic |-> session.topic] >>
                /\ pending'
                /\ result' = result
        /\ (inv[i].pc = "ping" /\ inv'[i] /= inv[i])
             => /\ inv'[i].pc = "done"
                /\ ~pending'
                /\ last'.id = i
                /\ last'.sent = inv[i].sent
                /\ result' = [method |-> "ping", valid |-> last'.got.ok,
                              result |-> Text(IF last'.got.ok THEN "Ping succeeded"
                                                               ELSE "Ping failed")] ]_vars

\* the keep-alive of a ping was rejected: the ping ended, pending is false
\* and the result says that the ping failed
C20_Witness ==
  /\ last.id > 0
  /\ last.op = "ping"
  /\ last.got = Rejected(TransportError)
  /\ inv[last.id].pc = "done"
  /\ ~pending
  /\ result = [method |-> "ping", valid |-> FALSE, result |-> Text("Ping failed")]

\* Elrond testSignTransactions ended last, the wallet having returned
\* three well-formed signatures
LastBatchSigned ==
  /\ LastIsWrapped
  /\ last.op = "elrondRpc.testSignTransactions"
  /\ "ok" \in DOMAIN last.got
  /\ last.got.ok
  /\ "signatures" \in DOMAIN last.got.value
  /\ Len(last.got.value.signatures) = 3
  /\ \A k \in 1..3 : IsSignature(last.got.value.signatures[k].signature)

\* signature k of the batch is the account's over transaction k
BatchItemGenuine(k) ==
  LET signature == last.got.value.signatures[k].signature
  IN  /\ signature.signer = last.address
      /\ signature.over = last.sent[1].params.transactions[k]

\* C21: Elrond testSignTransactions, when the wallet returns three
\* signatures, returns valid = the conjunction of the three verdicts: one
\* invalid signature, at whatever position, makes valid false.
C21_ElrondBatchIsConjunction ==
  LastBatchSigned
    => /\ last.out.k = "return"
       /\ result = last.out.value
       /\ result.valid = (\A k \in 1..3 : BatchItemGenuine(k))

\* only the first of the three signatures is invalid, and valid is false
C21_Witness ==
  /\ LastBatchSigned
  /\ ~BatchItemGenuine(1)
  /\ BatchItemGenuine(2)
  /\ BatchItemGenuine(3)
  /\ result.valid = FALSE

MessageOps ==
  { "ethereumRpc.testSignPersonalMessage", "ethereumRpc.testEthSign",
    "ethereumRpc.testSignTypedData" }

\* two EVM addresses that differ at most in the case of their hex digits
SameAddressIgnoringCase(a, b) ==
  \/ a = b
  \/ { a, b } = { "0xAb", "0xab" }
  \/ { a, b } = { "0xCd", "0xcd" }

\* an EVM message operation ended last by returning a record
LastMessageVerified ==
  /\ LastIsWrapped
  /\ last.op \in MessageOps
  /\ last.out.k = "return"

\* C22: testSignPersonalMessage, testEthSign and testSignTypedData return
\* valid = true iff the returned signature is over the message that was
\* sent and the address of its signer equals the address of the
\* invocation up to the case of the letters.
C22_EvmCaseInsensitiveMatch ==
  LastMessageVerified
    => result.valid
         = ( /\ IsSignature(last.got.value)
             /\ last.got.value.over = WalletPayload(last.sent[1])
             /\ SameAddressIgnoringCase(last.got.value.signer, last.address) )

\* testEthSign invoked with an address in lower case, signed by the key of
\* that address in mixed case: valid is true
C22_Witness ==
  /\ LastMessageVerified
  /\ last.op = "ethereumRpc.testEthSign"
  /\ last.address = "0xcd"
  /\ last.got.value = Signature("0xCd", EmailMessage)
  /\ result.valid

LastIsChia == LastIsWrapped /\ last.op \in ChiaOps

\* C23: every entry of the Chia table stores valid = true, with the
\* JSON serialization of the response as result, whenever its request
\* resolves, whatever the response says; valid = false only when the
\* request is rejected.
C23_ChiaTrustsResponse ==
  LastIsChia
    => /\ Len(last.sent) = 1
       /\ result.valid = last.got.ok
       /\ last.got.ok => result.result = [json |-> last.got.value]

\* the wallet answered a Chia request with success = false and the stored
\* record is valid
C23_Witness ==
  /\ LastIsChia
  /\ last.got.ok
  /\ last.got.value.success = FALSE
  /\ result.valid

\* a NEAR operation ended last, its request having resolved
LastNearResolved ==
  /\ LastIsWrapped
  /\ last.op \in NearOps
  /\ "ok" \in DOMAIN last.got
  /\ last.got.ok

\* C24 as stated: a NEAR operation stores valid = true whenever its
\* request resolves, for every response value.
C24_NearAlwaysValid == LastNearResolved => result.valid

\* the response has the shape the routine reads: an object for
\* testSignAndSendTransaction, a list of objects for
\* testSignAndSendTransactions
NearShaped ==
  IF last.op = "nearRpc.testSignAndSendTransaction"
  THEN "null" \notin DOMAIN last.got.value
  ELSE "list" \in DOMAIN last.got.value

\* C24: a NEAR operation whose request resolves stores valid = true iff
\* the response is an object (testSignAndSendTransaction) or a list of
\* objects (testSignAndSendTransactions), with or without transaction
\* fields; a null response, or one that is not a list for the batch call,
\* stores the valid = false record of the TypeError it raises.
C24_NearValidWhenShaped ==
  LastNearResolved
    => /\ result.valid = NearShaped
       /\ ~NearShaped => result = FailureRecord(last.address, TypeError)

\* the wallet answered testSignAndSendTransaction with an object that has
\* no transaction, and the stored record is valid
C24_Witness ==
  /\ LastNearResolved
  /\ last.op = "nearRpc.testSignAndSendTransaction"
  /\ last.got.value = EmptyObject
  /\ result.valid
  /\ result.result = Undefined

\* the invocations that have begun their routine, in flight or ended last,
\* with what they were given and what they sent
Sendings ==
  { inv[i] : i \in { j \in Invocations : InFlight(j) /\ inv[j].pc /= "ping" } }
    \cup (IF LastIsWrapped THEN { last } ELSE { })

\* the request payloads of an invocation, in the order sent
Payloads(s) ==
  [k \in DOMAIN s.sent |-> [method |-> s.sent[k].method, params |-> s.sent[k].params]]

\* two invocations of one entry with the same arguments and fetched inputs,
\* equally far in their requests
SameInputs(a, b) ==
  /\ a.op = b.op /\ a.chainId = b.chainId /\ a.address = b.address
  /\ a.fetched = b.fetched
  /\ Len(a.sent) = Len(b.sent)

\* C25: two invocations of the same method-table entry with the same
\* (chainId, address) and the same external inputs send the same request
\* payloads (the timestamp suffix of a message aside).
C25_FormattersDeterministic ==
  \A a, b \in Sendings : SameInputs(a, b) => Payloads(a) = Payloads(b)

\* the rejection of cryptoWaitReady(), as the routine rethrows it
WaitFailure == Throw(Rethrown(Error(Text("WASM failed to load"))))

\* invocation i of a polkadotRpc operation takes a step of its routine
PolkadotStep(i) ==
  /\ InFlight(i) /\ inv[i].pc /= "ping"
  /\ inv[i].op \in PolkadotOps
  /\ inv'[i] /= inv[i]

\* C26: a polkadotRpc invocation reaches a signatureVerify verdict only in
\* the step that follows the completion of its own cryptoWaitReady(); every
\* invocation whose request resolves goes through that wait; and a failed
\* wait stores a valid = false record without any verdict.
C26_PolkadotReadinessGate ==
  [][\A i \in Invocations :
       PolkadotStep(i) =>
         /\ (inv[i].pc = "request" /\ inv'[i].pc = "done")
              => /\ last'.out.k = "throw"
                 /\ ~last'.got.ok
                 /\ ~result'.valid
         /\ (inv[i].pc = "request" /\ inv'[i].pc /= "done")
              => /\ inv'[i].pc = "cryptoWaitReady"
                 /\ inv'[i].got.ok
         /\ (inv'[i].pc = "done" /\ last'.out.k = "return")
              => /\ inv[i].pc = "cryptoWaitReady"
                 /\ last'.out.verdict.by = "signatureVerify"
         /\ (inv'[i].pc = "done" /\ last'.out = WaitFailure)
              => /\ inv[i].pc = "cryptoWaitReady"
                 /\ result' = FailureRecord(inv[i].address, WaitFailure.error)
                 /\ ~result'.valid
    ]_vars

\* a polkadotRpc invocation ended with a verdict of signatureVerify while
\* another one is still waiting for the crypto subsystem
C26_Witness ==
  /\ LastIsWrapped
  /\ last.op \in PolkadotOps
  /\ last.out.k = "return"
  /\ last.out.verdict.by = "signatureVerify"
  /\ result.valid
  /\ \E i \in Invocations : inv[i].pc = "cryptoWaitReady"

\* where the first colon of a chain identifier stands
FirstColon(chainId) ==
  CHOOSE k \in DOMAIN chainId :
    chainId[k] = Colon /\ \A j \in 1..(k - 1) : chainId[j] /= Colon

\* the text before the first colon, and the whole text after it
BeforeFirstColon(chainId) == SubSeq(chainId, 1, FirstColon(chainId) - 1)
AfterFirstColon(chainId) == SubSeq(chainId, FirstColon(chainId) + 1, Len(chainId))

\* the chainID fields of the transactions an elrondRpc invocation sent
ChainIDsSent(s) ==
  IF s.op = "elrondRpc.testSignTransaction"
  THEN { s.sent[1].params.transaction.chainID }
  ELSE { s.sent[1].params.transactions[k].chainID :
           k \in DOMAIN s.sent[1].params.transactions }

\* C27: every operation that splits chainId works with the text before the
\* first colon as namespace and the whole text after it as reference: the
\* Elrond transactions carry that reference as chainID, and the chain-data
\* lookup of the EVM and Cosmos verifications fails exactly when chainData
\* has no entry for that namespace and reference.
C27_SplitOnFirstColon ==
  /\ \A s \in Sendings :
       ( /\ s.op \in { "elrondRpc.testSignTransaction", "elrondRpc.testSignTransactions" }
         /\ Len(s.sent) > 0 )
         => ChainIDsSent(s) = { AfterFirstColon(s.chainId) }
  /\ ( /\ LastIsWrapped
       /\ last.op \in ChainDataOps
       /\ "ok" \in DOMAIN last.got
       /\ last.got.ok
       /\ BeforeFirstColon(last.chainId) \in DOMAIN chainData )
       => ( AfterFirstColon(last.chainId) \in chainData[BeforeFirstColon(last.chainId)]
              <=> ~( /\ last.out.k = "throw"
                     /\ last.out.error =
                          Error(TextAbout("Missing chain data for chainId: ${chainId}",
                                          last.chainId)) ) )

\* a cosmosRpc operation ended last, the wallet having signed the sign doc
\* it received with the key of the invoked address, chain data being there
LastCosmosGenuine ==
  /\ LastIsWrapped
  /\ last.op \in CosmosOps
  /\ "ok" \in DOMAIN last.got
  /\ last.got.ok
  /\ "signature" \in DOMAIN last.got.value
  /\ last.got.value.signature = Signature(last.address, WalletPayload(last.sent[1]))
  /\ ~MissingChainData(last.chainId)

\* C28: when the wallet signs the sign doc of a cosmosRpc request with the
\* key of the invoked address and chain data is present, the verifier is
\* handed that same sign doc, that signature and that address, and the
\* stored record is valid.
C28_CosmosRoundTrip ==
  LastCosmosGenuine
    => /\ last.out.k = "return"
       /\ last.out.verdict.payload = WalletPayload(last.sent[1])
       /\ last.out.verdict.signature = last.got.value.signature
       /\ result = last.out.value
       /\ result.address = last.address
       /\ result.valid

\* testSignDirect ended valid on a signature over the sign doc it sent
C28_Witness ==
  /\ LastCosmosGenuine
  /\ last.op = "cosmosRpc.testSignDirect"
  /\ last.chainId = << "cosmos", Colon, "cosmoshub-4" >>
  /\ result.valid

\* slot i holds a wrapped operation between its check and its end
Running(slot) == slot.pc \notin { "idle", "rejected", "done", "ping" }

\* C30: an invocation that passes the client/session check writes
\* pending := true in its first step, before anything is sent and without
\* touching the result; its further steps write neither until the last one,
\* which writes the result record and pending := false together; it starts
\* once and ends once.
C30_WrapperWriteOrder ==
  [][\A i \in Invocations :
       /\ (inv[i].pc = "idle" /\ Running(inv'[i]))
            => /\ pending'
               /\ result' = result
               /\ \A j \in Invocations \ { i } : inv'[j] = inv[j]
       /\ (Running(inv[i]) /\ Running(inv'[i]) /\ inv'[i] /= inv[i])
            => /\ pending' = pending
               /\ result' = result
               /\ Stage(inv'[i].pc) > Stage(inv[i].pc)
       /\ (Running(inv[i]) /\ ~Running(inv'[i]))
            => /\ inv'[i].pc = "done"
               /\ last'.id = i
               /\ result' = RecordOf(last')
               /\ ~pending'
       /\ inv[i].pc = "done" => inv'[i] = inv[i]
       /\ inv[i].pc /= "idle" => inv'[i].pc /= "idle"
    ]_vars

\* a wrapped operation that sent its request has ended: its record is the
\* current result and pending is cleared
C30_Witness ==
  /\ LastIsWrapped
  /\ inv[last.id].pc = "done"
  /\ Len(last.sent) > 0
  /\ result = RecordOf(last)
  /\ ~pending
  /\ \E j \in Invocations : Running(inv[j])

\* what the invocation of a slot has sent so far
SentBy(slot) == IF "sent" \in DOMAIN slot THEN slot.sent ELSE << >>

\* invocation i sends a request or a keep-alive in this step
Sends(i) ==
  /\ "sent" \in DOMAIN inv'[i]
  /\ Len(inv'[i].sent) > Len(SentBy(inv[i]))

\* C31: an invocation gets past its start only when client and session are
\* present there, and is never turned away later; whatever it sends, at its
\* start or after a suspension, is addressed to the topic of the session it
\* found at its start, whether or not that session is still there.
C31_LivenessCheckedAtStart ==
  [][\A i \in Invocations :
       /\ (inv[i].pc = "idle" /\ inv'[i].pc \notin { "idle", "rejected" })
            => /\ client
               /\ session /= None
               /\ inv'[i].topic = session.topic
       /\ InFlight(i) => inv'[i].pc /= "rejected"
       /\ (InFlight(i) /\ "topic" \in DOMAIN inv'[i])
            => inv'[i].topic = inv[i].topic
       /\ Sends(i)
            => \A k \in (Len(SentBy(inv[i])) + 1)..Len(inv'[i].sent) :
                 inv'[i].sent[k].topic = inv'[i].topic
    ]_vars

\* a request sent after the fetch, to the topic the invocation started
\* with, while no session is connected
C31_Witness ==
  \E i \in Invocations :
    /\ inv[i].pc = "request"
    /\ inv[i].fetched /= None
    /\ inv[i].fetched.ok
    /\ Len(inv[i].sent) = 1
    /\ inv[i].sent[1].topic = inv[i].topic
    /\ session = None

\* the first balance entry of the account of an invocation, where there is one
HasFirstEntry(s) ==
  LET account == CaipAccountAddress(s.chainId, s.address)
  IN  account \in DOMAIN balances /\ balances[account] /= << >>

\* the balance testSendTransaction works with: the value of the first entry,
\* 0 when the entry has no value or an empty one
BalanceRead(s) ==
  LET first == balances[CaipAccountAddress(s.chainId, s.address)][1]
  IN  IF "balance" \notin DOMAIN first THEN 0
      ELSE IF first.balance = << >> THEN 0
      ELSE ParseDecimal(first.balance)

\* testSendTransaction invocations past the formatting of their transaction
FormattedSends ==
  { s \in Sendings : /\ s.op = "ethereumRpc.testSendTransaction"
                     /\ "ok" \in DOMAIN s.fetched
                     /\ s.fetched.ok
                     /\ HasFirstEntry(s) }

\* C32: testSendTransaction sends its request iff the balance of the first
\* balance entry, read as 0 when absent or empty, is at least
\* gasPrice * gasLimit; a balance equal to the cost proceeds.
C32_FundsThreshold ==
  \A s \in FormattedSends :
    (Len(s.sent) = 1)
      <=> (BalanceRead(s) >= s.fetched.value.gasPrice * s.fetched.value.gasLimit)

\* testSendTransaction ended after sending its request with a balance equal
\* to the cost
C32_Witness ==
  /\ LastIsWrapped
  /\ last \in FormattedSends
  /\ BalanceRead(last) = last.fetched.value.gasPrice * last.fetched.value.gasLimit
  /\ Len(last.sent) = 1
  /\ last.sent[1].method = "eth_sendTransaction"

\* the public-key map is absent or has no entry for the address
KeyMissing(address) ==
  \/ ~solanaPublicKeys.defined
  \/ address \notin DOMAIN solanaPublicKeys.keys

\* C33: a solanaRpc operation invoked without public-key material for its
\* address never waits for a blockhash and never sends a request, and ends
\* with a valid = false record.
C33_SolanaFailsBeforeNetwork ==
  /\ \A i \in Invocations :
       (Running(inv[i]) /\ inv[i].op \in SolanaOps /\ KeyMissing(inv[i].address))
         => /\ inv[i].pc /= "fetch"
            /\ inv[i].fetched = None
            /\ inv[i].sent = << >>
  /\ (LastIsWrapped /\ last.op \in SolanaOps /\ KeyMissing(last.address))
       => /\ last.fetched = None
          /\ last.sent = << >>
          /\ result = RecordOf(last)
          /\ ~result.valid

\* C34: an invocation of a wrapped operation or of ping made while client
\* or session is absent is refused with the client error when the client is
\* absent (the session being absent too or not) and the session error
\* otherwise; it leaves pending, the result and every other invocation as
\* they were, calls no routine and sends nothing.
C34_RefusalChangesNothing ==
  [][\A i \in Invocations :
       (Starts(i) /\ (~client \/ session = None))
         => /\ inv'[i] = [pc |-> "rejected", kind |-> inv'[i].kind,
                          error |-> IF ~client THEN NotInitialized ELSE NotConnected]
            /\ inv'[i].kind \in { "wrapped", "ping" }
            /\ SentBy(inv'[i]) = << >>
            /\ pending' = pending
            /\ result' = result
            /\ last' = last
            /\ \A j \in Others(i) : inv'[j] = inv[j]
    ]_vars

\* a ping and a wrapped operation were both refused for want of a client,
\* and nothing was written
C34_Witness ==
  /\ \E i \in Invocations :
       /\ inv[i].pc = "rejected"
       /\ inv[i].kind = "ping"
       /\ inv[i].error = NotInitialized
  /\ \E j \in Invocations :
       /\ inv[j].pc = "rejected"
       /\ inv[j].kind = "wrapped"
       /\ inv[j].error = NotInitialized
  /\ result = Undefined
  /\ ~pending
  /\ last.id = 0

\* C35: with client and session present the invocation of a wrapped
\* operation is taken on, and from then on it is never rejected towards its
\* caller: each of its steps leaves it running or ends it normally, with
\* the record of what the routine returned or threw as the current result.
C35_NeverFailsTowardsCaller ==
  [][\A i \in Invocations :
       /\ (StartsWrapped(i) /\ client /\ session /= None) => Running(inv'[i])
       /\ (Running(inv[i]) /\ inv'[i] /= inv[i])
            => \/ Running(inv'[i])
               \/ /\ inv'[i].pc = "done"
                  /\ last'.id = i
                  /\ result' = RecordOf(last')
                  /\ last'.out.k = "throw"
                       => result' = FailureRecord(inv[i].address, last'.out.error)
    ]_vars

\* a routine that threw before its first suspension has ended normally,
\* its failure being the current result
C35_Witness ==
  /\ LastIsWrapped
  /\ inv[last.id].pc = "done"
  /\ last.out.k = "throw"
  /\ last.sent = << >>
  /\ last.fetched = None
  /\ last.got = None
  /\ result = FailureRecord(last.address, last.out.error)

\* C36: whenever no wrapped operation and no ping is in flight, pending is
\* false.
C36_IdleMeansNotPending ==
  (\A i \in Invocations : ~InFlight(i)) => ~pending

\* every invocation has run and ended, a failed ping among them, and
\* pending is false
C36_Witness ==
  /\ \A i \in Invocations : inv[i].pc = "done"
  /\ last.op = "ping"
  /\ ~last.got.ok
  /\ ~pending

\* C37: the step in which an invocation starts, and every step in which
\* none ends, leaves the current result as it was; the result is written
\* only by the step that ends an operation, with the record of that
\* operation.
C37_ResultKeptUntilCompletion ==
  [][/\ (\A i \in Invocations : ~Ends(i)) => result' = result
     /\ \A i \in Invocations :
          /\ Starts(i) => result' = result
          /\ Ends(i) => (last'.id = i /\ result' = RecordOf(last'))
    ]_vars

\* the record of the first operation is still the current result while the
\* second one, started after it ended, has pending set
C37_Witness ==
  /\ inv[1].pc = "done"
  /\ last.id = 1
  /\ LastIsWrapped
  /\ Running(inv[2])
  /\ pending
  /\ result = RecordOf(last)

\* the record r is of a testSignTransaction whose request the wallet answered
\* with a signed transaction the routine could read
SignedTransactionRead(r) ==
  /\ r.id > 0
  /\ r.op = "ethereumRpc.testSignTransaction"
  /\ "ok" \in DOMAIN r.got
  /\ r.got.ok
  /\ r.out.k = "return"

\* C38: the valid of testSignTransaction is the verdict on the signed
\* transaction alone: an invocation that ends after another one which
\* differed from it in the address only and got the same signed transaction
\* reports the same valid, and a transaction properly signed by any key
\* is reported valid whatever the address of the invocation.
C38_SignTransactionIgnoresAddress ==
  [][\A i \in Invocations :
       (Ends(i) /\ SignedTransactionRead(last'))
         => /\ ( /\ SignedTransactionRead(last)
                 /\ last.chainId = last'.chainId
                 /\ last.got = last'.got )
              => result'.valid = result.valid
            /\ "signer" \in DOMAIN last'.got.value => result'.valid
            /\ result'.address = last'.address
    ]_vars

\* testSignTransaction invoked for 0xAb ended valid on a transaction signed
\* by the key of another address
C38_Witness ==
  /\ SignedTransactionRead(last)
  /\ last.address = "0xAb"
  /\ "signer" \in DOMAIN last.got.value
  /\ last.got.value.signer = "0xCd"
  /\ result = last.out.value
  /\ result.valid

====
